---- MODULE Spec2Model ----
(***************************************************************************)
(* A model of mcp_arxiv_tool: the Benty Fields client (login, listing      *)
(* fetch and per-paper parsing), the PDF processor (its file cache, the    *)
(* markdown conversion and the text extraction) and the synthesis of the   *)
(* daily summary, in generate_summary.py and in the server; the server's    *)
(* fetch_daily_papers tool; two callers of download_paper_pdf at once.     *)
(*                                                                         *)
(* Text is a sequence of one-character strings.  An HTTP exchange is a     *)
(* request together with the class of response the remote site gave.      *)
(***************************************************************************)
EXTENDS Integers, Sequences, FiniteSets, TLC

VARIABLES
    logged_in,   \* BentyFieldsClient._logged_in
    log,         \* the HTTP exchanges of the client's session, in order
    sitePage,    \* the paper blocks of the listing page the site serves
    ret,         \* the outcome of the client's last operation
    parseIn,     \* the paper block handed to _parse_paper
    parseOut,    \* what _parse_paper did with it
    files,       \* the files under PDFProcessor.tmp_dir, by path
    md_backend,  \* PYMUPDF4LLM_AVAILABLE
    last,        \* the last operation on the cache and its outcome
    prev,        \* the operation before it
    nops,        \* the number of operations on the cache so far
    pymupdf_available,     \* PYMUPDF_AVAILABLE
    pdfplumber_available,  \* PDFPLUMBER_AVAILABLE
    xret,        \* the outcome of the last extract_text call
    dest,        \* the file at the output_path of generate_daily_summary
    sret,        \* the last generate_daily_summary call and its outcome
    truncIn,     \* a content handed to the truncation of a content block
    truncOut,    \* the content block made of it
    call,        \* a fetch_daily_papers tool call of the server and its outcome
    client,      \* _client of server.py: "None" or the "BentyFieldsClient" made
    callers,     \* two callers of download_paper_pdf for one paper: where each is
    pdf_file,    \* the file at the paper's cache path that the two callers share
    served,      \* the revision of the paper's PDF the origin serves to them
    both         \* the two generate_daily_summary implementations on one input

clientVars == <<logged_in, log, sitePage, ret>>
parseVars == <<parseIn, parseOut>>
cacheVars == <<files, md_backend, last, prev, nops>>
extractVars == <<pymupdf_available, pdfplumber_available, xret>>
synthVars == <<dest, sret>>
truncVars == <<truncIn, truncOut>>
toolVars == <<call, client>>
raceVars == <<callers, pdf_file, served>>
parityVars == <<both>>
vars == <<clientVars, parseVars, cacheVars, extractVars, synthVars, truncVars,
          toolVars, raceVars, parityVars>>

--------------------------------------------------------------------------
(* Bounds of the model.                                                    *)

MaxLog == 4
MaxBlocks == 3
MaxOps == 5
DocChunks == 2
MaxHeadingLen == 3
MaxTextLen == 3
TruncSlack == 30
MaxPapers == 2
MaxSteps == 2

--------------------------------------------------------------------------
(* Text helpers.                                                           *)

Min(a, b) == IF a < b THEN a ELSE b
Max(a, b) == IF a > b THEN a ELSE b

Digits == {"0", "1", "2", "3", "4", "5", "6", "7", "8", "9"}

DigitVal(c) ==
    CASE c = "0" -> 0 [] c = "1" -> 1 [] c = "2" -> 2 [] c = "3" -> 3
      [] c = "4" -> 4 [] c = "5" -> 5 [] c = "6" -> 6 [] c = "7" -> 7
      [] c = "8" -> 8 [] c = "9" -> 9

SeqsUpTo(S, n) == UNION {[1..k -> S] : k \in 0..n}

\* The index of the first occurrence of character c in s, 0 when there is none.
FirstIndex(s, c) ==
    IF \E i \in 1..Len(s) : s[i] = c
    THEN CHOOSE i \in 1..Len(s) : s[i] = c /\ \A j \in 1..(i-1) : s[j] # c
    ELSE 0

\* s.split(c)[0]: the text before the first c, the whole text when c is absent.
SplitFirst(s, c) ==
    IF FirstIndex(s, c) = 0 THEN s ELSE SubSeq(s, 1, FirstIndex(s, c) - 1)

\* s.split(c, 1): one part when c is absent, else the text before and after the
\* first c.
SplitOnce(s, c) ==
    IF FirstIndex(s, c) = 0 THEN <<s>>
    ELSE <<SubSeq(s, 1, FirstIndex(s, c) - 1),
           SubSeq(s, FirstIndex(s, c) + 1, Len(s))>>

\* int(s) accepts a non-empty run of decimal digits.
IsInt(s) == Len(s) > 0 /\ \A i \in 1..Len(s) : s[i] \in Digits

RECURSIVE IntOf(_)
IntOf(s) == IF Len(s) = 0 THEN 0
            ELSE 10 * IntOf(SubSeq(s, 1, Len(s) - 1)) + DigitVal(s[Len(s)])

\* A slice that stops one item early.
PySliceToShort(s, n) ==
    IF n >= 0 THEN SubSeq(s, 1, Min(n - 1, Len(s)))
    ELSE SubSeq(s, 1, Max(Len(s) + n, 0))

\* s[:n] of Python: the first n items, and for a negative n all but the last -n.
PySliceTo(s, n) ==
    IF n >= 0 THEN SubSeq(s, 1, Min(n, Len(s)))
    ELSE SubSeq(s, 1, Max(Len(s) + n, 0))

--------------------------------------------------------------------------
(* Paper blocks of the listing page, as BeautifulSoup sees them.           *)

Absent == [present |-> FALSE, text |-> <<>>]
Elem(t) == [present |-> TRUE, text |-> t]

HeadingChars == {"1", ".", "t"}
LinkChars == {"1", "v", "a"}

\* h4: the h4.paper_row heading; authors: the p.paper_row line; abs: the anchor
\* whose href holds arxiv.org/abs; pdf: the anchor whose href ends in .pdf;
\* abstract: the p named abstract_field.
Block(h, au, ab, pd, abf) ==
    [h4 |-> h, authors |-> au, abs |-> ab, pdf |-> pd, abstract |-> abf]

Optional(texts) == {Absent} \cup {Elem(t) : t \in texts}

ParseBlocks ==
    {Block(h, au, ab, pd, abf) :
        h \in Optional(SeqsUpTo(HeadingChars, MaxHeadingLen)),
        au \in Optional({<<"A">>}),
        ab \in Optional(SeqsUpTo(LinkChars, MaxTextLen)),
        pd \in Optional({<<"u">>}),
        abf \in Optional({<<"s">>})}

NoPaper ==
    [rank |-> 0, title |-> <<>>, authors |-> <<>>, abstract |-> <<>>,
     arxiv_id |-> <<>>, arxiv_version |-> <<>>, pdf_url |-> <<>>,
     abs_url |-> <<>>]

ParseError(msg) == [exc |-> msg, paper |-> NoPaper]

\* arxiv_id = arxiv_version.split("v")[0]
arxiv_id_of(arxiv_version) == SplitFirst(arxiv_version, "v")

\* BentyFieldsClient._parse_paper: the dictionary, or the exception it raises.
parse_paper(b) ==
    IF ~b.h4.present THEN ParseError("ValueError: Could not find paper title")
    ELSE IF Len(SplitOnce(b.h4.text, ".")) # 2
    THEN ParseError("ValueError: not enough values to unpack")
    ELSE IF ~b.authors.present THEN ParseError("ValueError: Could not find authors")
    ELSE IF ~b.abs.present
    THEN ParseError("ValueError: Could not find arXiv abstract link")
    ELSE IF ~b.pdf.present THEN ParseError("ValueError: Could not find PDF link")
    ELSE IF ~IsInt(SplitOnce(b.h4.text, ".")[1])
    THEN ParseError("ValueError: invalid literal for int()")
    ELSE [exc |-> "none",
          paper |-> [rank |-> IntOf(SplitOnce(b.h4.text, ".")[1]),
                     title |-> SplitOnce(b.h4.text, ".")[2],
                     authors |-> b.authors.text,
                     abstract |-> IF b.abstract.present THEN b.abstract.text
                                  ELSE <<>>,
                     arxiv_id |-> arxiv_id_of(b.abs.text),
                     arxiv_version |-> b.abs.text,
                     pdf_url |-> b.pdf.text,
                     abs_url |-> <<"h">>]]


--------------------------------------------------------------------------
(* The PDF processor and its cache directory.                              *)

Ids == {"a", "b"}
Versions == {1, 2}

\* A path under tmp_dir: {arxiv_id}.pdf or {arxiv_id}.md.
Path(id, ext) == <<id, ext>>
Paths == Ids \X {"pdf", "md"}

\* The chunks of the document the origin serves for a paper, in one of its
\* revisions.
Doc(v) == [i \in 1..DocChunks |-> 10 * v + i]

NoFile == [exists |-> FALSE, data |-> <<>>]
File(d) == [exists |-> TRUE, data |-> d]

\* pymupdf4llm.to_markdown: the markdown of a PDF's content.
to_markdown(data) == [i \in 1..Len(data) |-> 100 + data[i]]

\* What the origin does with one GET of a PDF: the status, the revision it
\* serves and the number of chunks that arrive before the transfer breaks
\* (DocChunks: none is lost).
PdfResponses ==
    {[status |-> "conn_error", v |-> 1, arrive |-> 0],
     [status |-> "http_error", v |-> 1, arrive |-> 0]}
    \cup {[status |-> "ok", v |-> v, arrive |-> k] :
             v \in Versions, k \in 0..DocChunks}

CacheOutcome(e, p, fs, nreq, nconv) ==
    [exc |-> e, path |-> p, fs |-> fs, reqs |-> nreq, convs |-> nconv]

\* PDFProcessor.download_pdf with a save_path, lines 72-90, past the existence
\* check: the GET, raise_for_status, open(save_path, "wb") and the chunk loop.
stream_to_file(fs, save_path, r) ==
    IF r.status = "conn_error"
    THEN CacheOutcome("ConnectionError", save_path, fs, 1, 0)
    ELSE IF r.status = "http_error"
    THEN CacheOutcome("HTTPError", save_path, fs, 1, 0)
    ELSE IF r.arrive < DocChunks
    THEN CacheOutcome("ChunkedEncodingError", save_path,
                      [fs EXCEPT ![save_path] =
                          File(SubSeq(Doc(r.v), 1, r.arrive))], 1, 0)
    ELSE CacheOutcome("none", save_path,
                      [fs EXCEPT ![save_path] = File(Doc(r.v))], 1, 0)

\* PDFProcessor.download_pdf(pdf_url, save_path)
download_pdf(fs, save_path, r) ==
    IF fs[save_path].exists THEN CacheOutcome("none", save_path, fs, 0, 0)
    ELSE stream_to_file(fs, save_path, r)

\* download_paper_pdf that downloads whether or not the file is there.
download_paper_pdf_always(fs, id, r) == stream_to_file(fs, Path(id, "pdf"), r)

\* PDFProcessor.download_paper_pdf(paper), paper["arxiv_id"] being id
download_paper_pdf(fs, id, r) ==
    IF fs[Path(id, "pdf")].exists
    THEN CacheOutcome("none", Path(id, "pdf"), fs, 0, 0)
    ELSE download_pdf(fs, Path(id, "pdf"), r)

\* PDFProcessor.get_markdown_path
get_markdown_path(pdf_path) == Path(pdf_path[1], "md")

\* convert_to_markdown with the test of PYMUPDF4LLM_AVAILABLE ahead of the
\* test of pdf_path.exists().
convert_to_markdown_backend_first(fs, backend, pdf_path, c) ==
    IF ~backend
    THEN [exc |-> "RuntimeError: pymupdf4llm is not available",
          markdown |-> <<>>, convs |-> 0]
    ELSE IF ~fs[pdf_path].exists
    THEN [exc |-> "FileNotFoundError", markdown |-> <<>>, convs |-> 0]
    ELSE IF c = "fail"
    THEN [exc |-> "RuntimeError: PDF to Markdown conversion failed",
          markdown |-> <<>>, convs |-> 1]
    ELSE [exc |-> "none", markdown |-> to_markdown(fs[pdf_path].data),
          convs |-> 1]

\* PDFProcessor.convert_to_markdown: the exception and the markdown; c is
\* whether pymupdf4llm manages to convert the file.
convert_to_markdown(fs, backend, pdf_path, c) ==
    IF ~fs[pdf_path].exists
    THEN [exc |-> "FileNotFoundError", markdown |-> <<>>, convs |-> 0]
    ELSE IF ~backend
    THEN [exc |-> "RuntimeError: pymupdf4llm is not available",
          markdown |-> <<>>, convs |-> 0]
    ELSE IF c = "fail"
    THEN [exc |-> "RuntimeError: PDF to Markdown conversion failed",
          markdown |-> <<>>, convs |-> 1]
    ELSE [exc |-> "none", markdown |-> to_markdown(fs[pdf_path].data),
          convs |-> 1]

\* convert_and_save_markdown without the check for an existing markdown file.
convert_and_save_markdown_always(fs, backend, pdf_path, c) ==
    LET markdown_path == get_markdown_path(pdf_path)
        m == convert_to_markdown(fs, backend, pdf_path, c)
    IN  IF m.exc # "none"
        THEN CacheOutcome(m.exc, markdown_path, fs, 0, m.convs)
        ELSE CacheOutcome("none", markdown_path,
                          [fs EXCEPT ![markdown_path] = File(m.markdown)],
                          0, m.convs)

\* PDFProcessor.convert_and_save_markdown(pdf_path)
convert_and_save_markdown(fs, backend, pdf_path, c) ==
    LET markdown_path == get_markdown_path(pdf_path)
        m == convert_to_markdown(fs, backend, pdf_path, c)
    IN  IF fs[markdown_path].exists
        THEN CacheOutcome("none", markdown_path, fs, 0, 0)
        ELSE IF m.exc # "none"
        THEN CacheOutcome(m.exc, markdown_path, fs, 0, m.convs)
        ELSE CacheOutcome("none", markdown_path,
                          [fs EXCEPT ![markdown_path] = File(m.markdown)],
                          0, m.convs)

NoOp ==
    [op |-> "none", id |-> "a", exc |-> "none", path |-> Path("a", "pdf"),
     reqs |-> 0, convs |-> 0, hit |-> FALSE]

OpRecord(name, id, o, wasThere) ==
    [op |-> name, id |-> id, exc |-> o.exc, path |-> o.path, reqs |-> o.reqs,
     convs |-> o.convs, hit |-> wasThere]

CacheIdle ==
    /\ files = [p \in Paths |-> NoFile]
    /\ md_backend = TRUE
    /\ last = NoOp
    /\ prev = NoOp
    /\ nops = 0

\* Two callers of download_paper_pdf for one paper, over one cache directory
\* (two threads of a service, or the server and generate_summary.py, whose
\* default directory is the same).
Callers == {1, 2}

\* Where a caller is: before pdf_path.exists() of download_paper_pdf, before
\* save_path.exists() of download_pdf, before the GET, before open(save_path,
\* "wb"), in the chunk loop, or done.  pos is the offset of its file object,
\* in chunks; complete tells whether the file held the whole document when
\* the call returned its path.
Caller(pc, resp, pos, e, wrote, returned, complete) ==
    [pc |-> pc, resp |-> resp, pos |-> pos, exc |-> e, wrote |-> wrote,
     returned |-> returned, complete |-> complete]

IdleCaller ==
    Caller("idle", [status |-> "none", v |-> 1, arrive |-> 0], 0, "none",
           FALSE, FALSE, FALSE)

\* f.write(chunk) with every chunk appended at the end of the file, as a
\* file opened for appending does it.
write_appending(data, pos, chunk) == Append(data, chunk)

\* f.write(chunk) at the offset of the caller's file object: over what is
\* there, or past the end of a file that another open has truncated, which
\* leaves a hole of zero bytes (0) before the chunk.
write(data, pos, chunk) ==
    IF pos < Len(data) THEN [data EXCEPT ![pos + 1] = chunk]
    ELSE data \o [i \in 1..(pos - Len(data)) |-> 0] \o <<chunk>>

Returned(c, file, whole) ==
    [c EXCEPT !.pc = "done", !.returned = TRUE, !.complete = file = whole]

RaceIdle ==
    /\ callers = [p \in Callers |-> IdleCaller]
    /\ pdf_file = NoFile
    /\ served = 1

--------------------------------------------------------------------------
(* Text extraction.                                                        *)

\* The text a backend extracts from a PDF's content: fitz's get_text and
\* pdfplumber's extract_text lay the same pages out differently.
text_of(backend, data) ==
    [i \in 1..Len(data) |->
        (IF backend = "pymupdf" THEN 200 ELSE 300) + data[i]]

ExtractOutcome(e, t, b) == [exc |-> e, text |-> t, tried |-> b]

\* extract_text without its test of pdf_path.exists(): the backends are tried
\* on the path, and fail on a path where no file is.
extract_text_backend_first(fs, pm, pp, pdf_path, e1, e2) ==
    LET data == fs[pdf_path].data
        first == IF pm THEN <<"pymupdf">> ELSE <<>>
    IN  IF pm /\ e1 = "ok" /\ fs[pdf_path].exists
        THEN ExtractOutcome("none", text_of("pymupdf", data), first)
        ELSE IF pp /\ e2 = "ok" /\ fs[pdf_path].exists
        THEN ExtractOutcome("none", text_of("pdfplumber", data),
                            first \o <<"pdfplumber">>)
        ELSE IF pp
        THEN ExtractOutcome("pdfplumber's exception", <<>>,
                            first \o <<"pdfplumber">>)
        ELSE ExtractOutcome("RuntimeError: No PDF extraction library available",
                            <<>>, first)

\* PDFProcessor.extract_text(pdf_path) with the module's flags pm
\* (PYMUPDF_AVAILABLE) and pp (PDFPLUMBER_AVAILABLE); e1 and e2 are whether
\* fitz and pdfplumber manage to read the file.  The outcome names the
\* exception, the text returned and the backends tried, in order.
extract_text(fs, pm, pp, pdf_path, e1, e2) ==
    LET data == fs[pdf_path].data
        first == IF pm THEN <<"pymupdf">> ELSE <<>>
    IN  IF ~fs[pdf_path].exists
        THEN ExtractOutcome("FileNotFoundError", <<>>, <<>>)
        ELSE IF pm /\ e1 = "ok"
        THEN ExtractOutcome("none", text_of("pymupdf", data), first)
        ELSE IF pp /\ e2 = "ok"
        THEN ExtractOutcome("none", text_of("pdfplumber", data),
                            first \o <<"pdfplumber">>)
        ELSE IF pp
        THEN ExtractOutcome("pdfplumber's exception", <<>>,
                            first \o <<"pdfplumber">>)
        ELSE ExtractOutcome("RuntimeError: No PDF extraction library available",
                            <<>>, first)

NoExtract ==
    [op |-> "none", id |-> "a", exc |-> "none", text |-> <<>>,
     tried |-> <<>>, e1 |-> "ok", e2 |-> "ok"]

ExtractIdle ==
    /\ pymupdf_available = TRUE
    /\ pdfplumber_available = TRUE
    /\ xret = NoExtract

\* What a cached PDF can hold: a document as served, or the chunks that
\* arrived before a transfer broke.
PdfFiles ==
    {NoFile} \cup {File(SubSeq(Doc(v), 1, k)) : v \in Versions, k \in 0..DocChunks}

--------------------------------------------------------------------------
(* The content block of a section and its truncation.                      *)

\* The lengths past which a content is cut: markdown_content[:10000] and
\* text[:5000].
MarkdownBound == 10000
TextBound == 5000

\* "\n\n... (truncated, full content available in Markdown file)"
MarkdownMarker ==
    <<"\n", "\n", ".", ".", ".", " ", "(", "t", "r", "u", "n", "c", "a",
      "t", "e", "d", ",", " ", "f", "u", "l", "l", " ", "c", "o", "n", "t",
      "e", "n", "t", " ", "a", "v", "a", "i", "l", "a", "b", "l", "e", " ",
      "i", "n", " ", "M", "a", "r", "k", "d", "o", "w", "n", " ", "f", "i",
      "l", "e", ")">>

TextMarker == <<".", ".", ".">>

\* content_preview with the marker added from the bound on, not past it.
markdown_preview_inclusive(markdown_content) ==
    PySliceTo(markdown_content, MarkdownBound)
    \o (IF Len(markdown_content) >= MarkdownBound THEN MarkdownMarker ELSE <<>>)

\* content_preview: markdown_content[:10000], with the marker appended when
\* len(markdown_content) > 10000.
markdown_preview(markdown_content) ==
    PySliceTo(markdown_content, MarkdownBound)
    \o (IF Len(markdown_content) > MarkdownBound THEN MarkdownMarker ELSE <<>>)

\* text[:5000] + ("..." if len(text) > 5000 else "")
text_preview(text) ==
    PySliceTo(text, TextBound)
    \o (IF Len(text) > TextBound THEN TextMarker ELSE <<>>)

\* A content of n characters.
Content(n) ==
    [i \in 1..n |-> CASE i % 3 = 0 -> "x" [] i % 3 = 1 -> "y" [] OTHER -> "z"]

\* The lengths of the contents handed to the truncation: none, the lengths
\* around the bound and twice the bound.
LengthsAround(bound) ==
    {0, 2 * bound} \cup ((bound - TruncSlack)..(bound + TruncSlack))

TruncInputs ==
    {[kind |-> "markdown", content |-> Content(n)] :
        n \in LengthsAround(MarkdownBound)}
    \cup {[kind |-> "text", content |-> Content(n)] :
              n \in LengthsAround(TextBound)}

NoTrunc == [done |-> FALSE, block |-> <<>>]

TruncIdle ==
    /\ truncIn = [kind |-> "text", content |-> <<>>]
    /\ truncOut = NoTrunc

--------------------------------------------------------------------------
(* The synthesis of the daily summary: generate_daily_summary of           *)
(* generate_summary.py ("script") and the generate_daily_summary branch of *)
(* call_tool in server.py ("server").                                      *)

Impls == {"script", "server"}

\* The paper dictionaries handed to the synthesis.
SynthPaper(id) ==
    [rank |-> IF id = "a" THEN 1 ELSE 2, title |-> <<"t", id>>,
     authors |-> <<"A", id>>, abstract |-> <<"s", id>>, arxiv_id |-> id,
     arxiv_version |-> <<id, "v", "1">>, pdf_url |-> <<"u", id>>,
     abs_url |-> <<"h", id>>]

PaperLists == SeqsUpTo({SynthPaper(id) : id \in Ids}, MaxPapers)

\* Metadata lines whose identifier line leaves the version label out.
metadata_without_version(paper) ==
    [heading |-> <<paper.rank, paper.title>>,
     authors |-> paper.authors,
     arxiv_id_line |-> <<paper.arxiv_id>>,
     abstract |-> paper.abstract,
     abstract_link |-> paper.abs_url,
     pdf_link |-> paper.pdf_url]

\* The metadata lines of a section.
metadata(paper) ==
    [heading |-> <<paper.rank, paper.title>>,
     authors |-> paper.authors,
     arxiv_id_line |-> <<paper.arxiv_id, paper.arxiv_version>>,
     abstract |-> paper.abstract,
     abstract_link |-> paper.abs_url,
     pdf_link |-> paper.pdf_url]

\* The content part of a section: a markdown block ("**Paper Content
\* (Markdown):**"), a text block ("**Extracted PDF Text:**"), the notice
\* "*PDF content extraction failed: {e}*", or nothing.
NoContent == [kind |-> "none", body |-> <<>>, err |-> "none"]
MarkdownBlock(markdown_content) ==
    [kind |-> "markdown", body |-> markdown_preview(markdown_content),
     err |-> "none"]
TextBlock(text) ==
    [kind |-> "text", body |-> text_preview(text), err |-> "none"]
Notice(e) == [kind |-> "notice", body |-> <<>>, err |-> e]

\* How the surroundings answer during one call: r is what the origin does
\* with a GET of a PDF, c whether pymupdf4llm converts, e1 and e2 whether fitz
\* and pdfplumber read a PDF.
SynthResponses ==
    {r \in PdfResponses :
        r.v = 1 /\ r.status # "conn_error" /\ r.arrive \in {0, DocChunks}}
Surroundings ==
    {[r |-> r, c |-> c, e1 |-> e[1], e2 |-> e[2]] :
        r \in SynthResponses, c \in {"ok", "fail"},
        e \in {<<"ok", "ok">>, <<"fail", "ok">>, <<"fail", "fail">>}}

\* The processor's module flags.
Flags(backend, pm, pp) == [md |-> backend, pm |-> pm, pp |-> pp]

\* A call made for the content of a section: the operation, the exception it
\* raised and the work it did (requests, conversions, backends tried).
Call(name, e, work) == [op |-> name, exc |-> e, work |-> work]

\* What the content part of one section comes to: the exception that leaves
\* it ("none" when none does), the cache, the block and the calls made, in
\* order.
Enriched(e, fs, b, calls) == [exc |-> e, fs |-> fs, block |-> b, calls |-> calls]

\* text = processor.extract_text(pdf_path) and the text block made of it.
text_content(fs, fl, pdf_path, d, before) ==
    LET x == extract_text(fs, fl.pm, fl.pp, pdf_path, d.e1, d.e2)
        calls == before \o <<Call("extract_text", x.exc, Len(x.tried))>>
    IN  IF x.exc # "none" THEN Enriched(x.exc, fs, NoContent, calls)
        ELSE Enriched("none", fs, TextBlock(x.text), calls)

\* A markdown branch that goes to extract_text at once.
markdown_content_text_first(fs, fl, pdf_path, d, checked, before) ==
    text_content(fs, fl, pdf_path, d, before)

\* The try block of the markdown branch and its except clause, which falls
\* back to extract_text.  checked: the caller looks for the markdown file
\* itself and calls convert_and_save_markdown only when it is not there.
markdown_content(fs, fl, pdf_path, d, checked, before) ==
    LET md_path == get_markdown_path(pdf_path)
        skip == checked /\ fs[md_path].exists
        o == convert_and_save_markdown(fs, fl.md, pdf_path, d.c)
        calls == before
                 \o (IF skip THEN <<>>
                     ELSE <<Call("convert_and_save_markdown", o.exc, o.convs)>>)
        read == <<Call("read_markdown", "none", 0)>>
    IN  IF skip
        THEN Enriched("none", fs, MarkdownBlock(fs[md_path].data),
                      calls \o read)
        ELSE IF o.exc = "none"
        THEN Enriched("none", o.fs, MarkdownBlock(o.fs[md_path].data),
                      calls \o read)
        ELSE text_content(o.fs, fl, pdf_path, d, calls)

\* An except clause that swallows the exception and appends nothing.
swallowed(o) == Enriched("none", o.fs, NoContent, o.calls)

\* An exception that reaches the except clause of the content part becomes
\* the notice of the section.
noticed(o) ==
    IF o.exc = "none" THEN o
    ELSE Enriched("none", o.fs, Notice(o.exc), o.calls)

\* The content part of generate_summary.py, lines 150-243.
script_content(fs, fl, paper, use_markdown, d) ==
    LET pdf_path == Path(paper.arxiv_id, "pdf")
        dl == download_paper_pdf(fs, paper.arxiv_id, d.r)
        got == <<Call("download_paper_pdf", dl.exc, dl.reqs)>>
    IN  IF fs[pdf_path].exists
        THEN IF use_markdown
             THEN noticed(markdown_content(fs, fl, pdf_path, d, TRUE, <<>>))
             ELSE Enriched("none", fs, NoContent, <<>>)
        ELSE IF dl.exc # "none"
        THEN noticed(Enriched(dl.exc, dl.fs, NoContent, got))
        ELSE IF use_markdown
        THEN noticed(markdown_content(dl.fs, fl, pdf_path, d, FALSE, got))
        ELSE noticed(text_content(dl.fs, fl, pdf_path, d, got))

\* The content part of server.py, lines 351-407.
server_content(fs, fl, paper, use_markdown, d) ==
    LET pdf_path == Path(paper.arxiv_id, "pdf")
    IN  IF fs[pdf_path].exists
        THEN IF use_markdown
             THEN noticed(markdown_content(fs, fl, pdf_path, d, TRUE, <<>>))
             ELSE noticed(text_content(fs, fl, pdf_path, d, <<>>))
        ELSE Enriched("none", fs, NoContent, <<>>)

AnalysisKeys == {"motivation", "methodology", "data_used", "conclusions"}

\* What fill_ai_sections comes to: OpenAI is not installed or has no key, the
\* request fails, the reply is a JSON object with the four keys or with some
\* of them, the reply is not JSON, or the reply is JSON that is not an object.
Narratives ==
    {"unconfigured", "failed", "full", "partial", "unparsed", "not_a_mapping"}

\* fill_ai_sections(title, abstract, authors) when it returns a dictionary.
fill_ai_sections(ai) ==
    CASE ai = "unconfigured" ->
            [k \in AnalysisKeys |-> "*AI analysis unavailable - set OPENAI_API_KEY*"]
      [] ai = "failed" -> [k \in AnalysisKeys |-> "*AI analysis failed*"]
      [] ai = "full" -> [k \in AnalysisKeys |-> "narrative"]
      [] ai = "partial" -> [k \in {"motivation"} |-> "narrative"]
      [] ai = "unparsed" ->
            [k \in AnalysisKeys |->
                IF k = "motivation" THEN "reply"
                ELSE "*Could not parse AI response*"]

\* The four parts with ai_sections[key] in the place of ai_sections.get(key,
\* default): a key the reply lacks leaves its part out.
analysis_block_without_default(impl, ai) ==
    IF impl = "server"
    THEN [k \in AnalysisKeys |-> "*To be filled by AI analysis*"]
    ELSE [k \in AnalysisKeys |->
            IF k \in DOMAIN fill_ai_sections(ai) THEN fill_ai_sections(ai)[k]
            ELSE "absent"]

\* The four parts appended to a section: ai_sections.get(key, "*AI analysis
\* unavailable*") in generate_summary.py, the fixed line of server.py.
analysis_block(impl, ai) ==
    IF impl = "server"
    THEN [k \in AnalysisKeys |-> "*To be filled by AI analysis*"]
    ELSE [k \in AnalysisKeys |->
            IF k \in DOMAIN fill_ai_sections(ai) THEN fill_ai_sections(ai)[k]
            ELSE "*AI analysis unavailable*"]

NoAnalysis == [k \in AnalysisKeys |-> "absent"]

\* One section of the document; had_pdf and had_md tell whether the paper's
\* PDF and markdown file were in the cache when the section was begun.
Section(paper, o, a, had) ==
    [meta |-> metadata(paper), content |-> o.block, calls |-> o.calls,
     analysis |-> a, had_pdf |-> had[1], had_md |-> had[2]]

\* The loop without its test of include_pdf_text: the content part runs for
\* every paper.
RECURSIVE assemble_ignoring_flag(_, _, _, _, _, _, _, _)
assemble_ignoring_flag(impl, fs, fl, papers, include_pdf_text, use_markdown, d, ai) ==
    IF papers = <<>> THEN [exc |-> "none", fs |-> fs, sections |-> <<>>]
    ELSE
      LET paper == Head(papers)
          had == <<fs[Path(paper.arxiv_id, "pdf")].exists,
                   fs[Path(paper.arxiv_id, "md")].exists>>
          o == IF impl = "script"
               THEN script_content(fs, fl, paper, use_markdown, d)
               ELSE server_content(fs, fl, paper, use_markdown, d)
          rest == assemble_ignoring_flag(impl, o.fs, fl, Tail(papers),
                                         include_pdf_text, use_markdown, d, ai)
      IN  IF impl = "script" /\ ai = "not_a_mapping"
          THEN [exc |-> "AttributeError", fs |-> o.fs,
                sections |-> <<Section(paper, o, NoAnalysis, had)>>]
          ELSE [exc |-> rest.exc, fs |-> rest.fs,
                sections |-> <<Section(paper, o, analysis_block(impl, ai), had)>>
                             \o rest.sections]

\* The loop over the papers: the sections assembled, the cache afterwards and
\* the exception that ended the loop ("none": it ran to its end).
RECURSIVE assemble(_, _, _, _, _, _, _, _)
assemble(impl, fs, fl, papers, include_pdf_text, use_markdown, d, ai) ==
    IF papers = <<>> THEN [exc |-> "none", fs |-> fs, sections |-> <<>>]
    ELSE
      LET paper == Head(papers)
          had == <<fs[Path(paper.arxiv_id, "pdf")].exists,
                   fs[Path(paper.arxiv_id, "md")].exists>>
          o == IF ~include_pdf_text THEN Enriched("none", fs, NoContent, <<>>)
               ELSE IF impl = "script"
               THEN script_content(fs, fl, paper, use_markdown, d)
               ELSE server_content(fs, fl, paper, use_markdown, d)
          rest == assemble(impl, o.fs, fl, Tail(papers), include_pdf_text,
                           use_markdown, d, ai)
      IN  IF impl = "script" /\ ai = "not_a_mapping"
          THEN [exc |-> "AttributeError", fs |-> o.fs,
                sections |-> <<Section(paper, o, NoAnalysis, had)>>]
          ELSE [exc |-> rest.exc, fs |-> rest.fs,
                sections |-> <<Section(paper, o, analysis_block(impl, ai), had)>>
                             \o rest.sections]

\* The file at output_path: whether its parent directory and the file exist,
\* and what the file holds of a document (its header, then its sections).
Dest(dir, exists, header, sections) ==
    [dir |-> dir, exists |-> exists, header |-> header, sections |-> sections]
NoDest == Dest(FALSE, FALSE, FALSE, <<>>)

\* What becomes of the write of a document of n sections: it completes, or
\* it breaks (the disk is full, the process is stopped) once the first parts
\* of the header and the n sections are in the file.
WriteOutcomes(n) ==
    {[status |-> "ok", parts |-> n + 1]}
    \cup {[status |-> "interrupted", parts |-> k] : k \in 0..n}

\* The first parts of a document.
Written(sections, parts) ==
    Dest(TRUE, TRUE, parts >= 1, SubSeq(sections, 1, parts - 1))

SynthOutcome(e, fs, dst, secs, ops, res) ==
    [exc |-> e, fs |-> fs, dest |-> dst, sections |-> secs, fsops |-> ops,
     result |-> res]

NoResult == [papers_count |-> 0, file_size |-> 0]

\* output_path.stat().st_size, in parts of the document.
st_size(dst) ==
    IF dst.exists THEN (IF dst.header THEN 1 ELSE 0) + Len(dst.sections) ELSE 0

\* The value returned with a count of the different papers in the place of
\* len(papers).
result_distinct_papers(papers, dst) ==
    [papers_count |-> Cardinality({papers[i] : i \in DOMAIN papers}),
     file_size |-> st_size(dst)]

\* The value returned: len(papers) and the size of the file written.
result(papers, dst) ==
    [papers_count |-> Len(papers), file_size |-> st_size(dst)]

\* generate_daily_summary: the loop, then mkdir of the parent directory,
\* open(output_path, "w") and one write of the joined lines.
generate_daily_summary(impl, fs, dst, fl, papers, include_pdf_text, use_markdown, d, ai, w) ==
    LET a == assemble(impl, fs, fl, papers, include_pdf_text, use_markdown,
                      d, ai)
    IN  IF a.exc # "none"
        THEN SynthOutcome(a.exc, a.fs, dst, a.sections, <<>>, NoResult)
        ELSE IF w.status = "interrupted"
        THEN SynthOutcome("OSError", a.fs, Written(a.sections, w.parts),
                          a.sections, <<"mkdir", "open", "write">>, NoResult)
        ELSE SynthOutcome("none", a.fs, Written(a.sections, w.parts),
                          a.sections, <<"mkdir", "open", "write">>,
                          result(papers, Written(a.sections, w.parts)))

NoSynth ==
    [op |-> "none", impl |-> "script", papers |-> <<>>,
     include_pdf_text |-> FALSE, use_markdown |-> FALSE,
     ai |-> "unconfigured", exc |-> "none",
     sections |-> <<>>, fsops |-> <<>>, result |-> NoResult,
     dest_before |-> NoDest]

SynthIdle ==
    /\ dest = NoDest
    /\ sret = NoSynth

\* The content decision of a section and the work done for it.
Decision(sec) ==
    [kind |-> sec.content.kind,
     downloads |-> Cardinality({k \in 1..Len(sec.calls) :
                                   /\ sec.calls[k].op = "download_paper_pdf"
                                   /\ sec.calls[k].work > 0}),
     conversions |-> Cardinality({k \in 1..Len(sec.calls) :
                                     /\ sec.calls[k].op
                                           = "convert_and_save_markdown"
                                     /\ sec.calls[k].work > 0})]

Run(o) ==
    [exc |-> o.exc, fs |-> o.fs,
     decisions |-> [i \in 1..Len(o.sections) |-> Decision(o.sections[i])]]

NoBoth ==
    [done |-> FALSE, papers |-> <<>>, include_pdf_text |-> FALSE,
     use_markdown |-> FALSE,
     script |-> [exc |-> "none", fs |-> [p \in Paths |-> NoFile],
                 decisions |-> <<>>],
     server |-> [exc |-> "none", fs |-> [p \in Paths |-> NoFile],
                 decisions |-> <<>>]]

ParityIdle == both = NoBoth

--------------------------------------------------------------------------
(* The listing page and the client.                                        *)

\* The blocks a listing page is made of in the listing specifications: two
\* well-formed ones of ranks 1 and 2, and one for each way a block fails to
\* parse.
GoodBlock(rank) ==
    Block(Elem(<<rank, ".", "t">>), Elem(<<"A">>), Elem(<<rank, "v", "1">>),
          Elem(<<"u">>), Elem(<<"s">>))

ListingBlocks ==
    {GoodBlock("1"), GoodBlock("2"),
     [GoodBlock("1") EXCEPT !.h4 = Absent],
     [GoodBlock("1") EXCEPT !.h4 = Elem(<<"1", "t">>)],
     [GoodBlock("1") EXCEPT !.h4 = Elem(<<"t", ".", "t">>)],
     [GoodBlock("1") EXCEPT !.authors = Absent],
     [GoodBlock("1") EXCEPT !.abs = Absent],
     [GoodBlock("1") EXCEPT !.pdf = Absent]}

Pages == SeqsUpTo(ListingBlocks, MaxBlocks)
\* The pages of the client specification: an empty listing, one paper, one
\* block that does not parse.
ClientPages ==
    {<<>>, <<GoodBlock("1")>>, <<[GoodBlock("1") EXCEPT !.pdf = Absent]>>}
Nums == (0 - 1)..(MaxBlocks + 1)

\* The classes of response to GET /login, POST /login and the listing GET.
LoginFormResponses ==
    {"conn_error", "http_error", "no_token", "token_no_value", "ok"}
LoginPostResponses == {"conn_error", "http_error", "no_logout", "ok"}
ListingResponses == {"conn_error", "http_error", "ok"}

\* What the site answers during one call, exchange by exchange.  A call makes
\* no exchange after one that failed, so the answers that would follow a
\* failure are not enumerated.
LoginScripts ==
    {<<g, p>> \in LoginFormResponses \X LoginPostResponses :
        g # "ok" => p = "ok"}
FetchScripts ==
    {<<g, p, l>> \in LoginFormResponses \X LoginPostResponses \X ListingResponses :
        /\ g # "ok" => p = "ok"
        /\ (g # "ok" \/ p # "ok") => l = "ok"}

Exchange(request, response) == [req |-> request, resp |-> response]

Outcome(e, f, r) == [exc |-> e, flag |-> f, reqs |-> r]

\* login with the flag set once the POST has a success status, whatever the
\* body holds.
login_without_logout_check(li, g, p) ==
    IF g = "conn_error"
    THEN Outcome("ConnectionError", li, <<Exchange("GET /login", g)>>)
    ELSE IF g = "http_error"
    THEN Outcome("HTTPError", li, <<Exchange("GET /login", g)>>)
    ELSE IF g = "no_token"
    THEN Outcome("RuntimeError: Could not find CSRF token on login page", li,
                 <<Exchange("GET /login", g)>>)
    ELSE IF g = "token_no_value"
    THEN Outcome("KeyError: value", li, <<Exchange("GET /login", g)>>)
    ELSE IF p = "conn_error"
    THEN Outcome("ConnectionError", li,
                 <<Exchange("GET /login", g), Exchange("POST /login", p)>>)
    ELSE IF p = "http_error"
    THEN Outcome("HTTPError", li,
                 <<Exchange("GET /login", g), Exchange("POST /login", p)>>)
    ELSE Outcome("none", TRUE,
                 <<Exchange("GET /login", g), Exchange("POST /login", p)>>)

\* login that posts the credentials even when the form holds no token.
login_without_token_check(li, g, p) ==
    IF g = "conn_error"
    THEN Outcome("ConnectionError", li, <<Exchange("GET /login", g)>>)
    ELSE IF g = "http_error"
    THEN Outcome("HTTPError", li, <<Exchange("GET /login", g)>>)
    ELSE IF p = "conn_error"
    THEN Outcome("ConnectionError", li,
                 <<Exchange("GET /login", g), Exchange("POST /login", p)>>)
    ELSE IF p = "http_error"
    THEN Outcome("HTTPError", li,
                 <<Exchange("GET /login", g), Exchange("POST /login", p)>>)
    ELSE IF p = "no_logout"
    THEN Outcome("RuntimeError: Login failed - check credentials", li,
                 <<Exchange("GET /login", g), Exchange("POST /login", p)>>)
    ELSE Outcome("none", TRUE,
                 <<Exchange("GET /login", g), Exchange("POST /login", p)>>)

\* login behind a guard of its own: on a client that is logged in it returns
\* at once and makes no request.
login_guarded(li, g, p) ==
    IF li THEN Outcome("none", li, <<>>)
    ELSE IF g = "conn_error"
    THEN Outcome("ConnectionError", li, <<Exchange("GET /login", g)>>)
    ELSE IF g = "http_error"
    THEN Outcome("HTTPError", li, <<Exchange("GET /login", g)>>)
    ELSE IF g = "no_token"
    THEN Outcome("RuntimeError: Could not find CSRF token on login page", li,
                 <<Exchange("GET /login", g)>>)
    ELSE IF g = "token_no_value"
    THEN Outcome("KeyError: value", li, <<Exchange("GET /login", g)>>)
    ELSE IF p = "conn_error"
    THEN Outcome("ConnectionError", li,
                 <<Exchange("GET /login", g), Exchange("POST /login", p)>>)
    ELSE IF p = "http_error"
    THEN Outcome("HTTPError", li,
                 <<Exchange("GET /login", g), Exchange("POST /login", p)>>)
    ELSE IF p = "no_logout"
    THEN Outcome("RuntimeError: Login failed - check credentials", li,
                 <<Exchange("GET /login", g), Exchange("POST /login", p)>>)
    ELSE Outcome("none", TRUE,
                 <<Exchange("GET /login", g), Exchange("POST /login", p)>>)

\* BentyFieldsClient.login on a client whose _logged_in is li: the exception it
\* raises ("none": it returns True), _logged_in afterwards and the exchanges
\* it made.
login(li, g, p) ==
    IF g = "conn_error"
    THEN Outcome("ConnectionError", li, <<Exchange("GET /login", g)>>)
    ELSE IF g = "http_error"
    THEN Outcome("HTTPError", li, <<Exchange("GET /login", g)>>)
    ELSE IF g = "no_token"
    THEN Outcome("RuntimeError: Could not find CSRF token on login page", li,
                 <<Exchange("GET /login", g)>>)
    ELSE IF g = "token_no_value"
    THEN Outcome("KeyError: value", li, <<Exchange("GET /login", g)>>)
    ELSE IF p = "conn_error"
    THEN Outcome("ConnectionError", li,
                 <<Exchange("GET /login", g), Exchange("POST /login", p)>>)
    ELSE IF p = "http_error"
    THEN Outcome("HTTPError", li,
                 <<Exchange("GET /login", g), Exchange("POST /login", p)>>)
    ELSE IF p = "no_logout"
    THEN Outcome("RuntimeError: Login failed - check credentials", li,
                 <<Exchange("GET /login", g), Exchange("POST /login", p)>>)
    ELSE Outcome("none", TRUE,
                 <<Exchange("GET /login", g), Exchange("POST /login", p)>>)

\* _ensure_logged_in without its guard: a login on every call.
ensure_logged_in_always(li, g, p) == login(li, g, p)

\* _ensure_logged_in with the guard inverted: it logs in only a client that
\* is logged in already.
ensure_logged_in_inverted(li, g, p) ==
    IF li THEN login(li, g, p) ELSE Outcome("none", li, <<>>)

\* BentyFieldsClient._ensure_logged_in
ensure_logged_in(li, g, p) ==
    IF ~li THEN login(li, g, p) ELSE Outcome("none", li, <<>>)

\* The loop without its try/except: the first block that fails to parse ends
\* it, and nothing is returned.
ParseAllOrNothing(blocks) ==
    IF \E i \in 1..Len(blocks) : parse_paper(blocks[i]).exc # "none" THEN <<>>
    ELSE [i \in 1..Len(blocks) |-> parse_paper(blocks[i]).paper]

\* The loop of fetch_daily_papers over the considered blocks: the papers of the
\* blocks that parse, in order.
RECURSIVE ParseAll(_)
ParseAll(blocks) ==
    IF Len(blocks) = 0 THEN <<>>
    ELSE IF parse_paper(Head(blocks)).exc = "none"
    THEN <<parse_paper(Head(blocks)).paper>> \o ParseAll(Tail(blocks))
    ELSE ParseAll(Tail(blocks))

\* The number of "Error parsing paper" lines the loop prints.
RECURSIVE ParseErrors(_)
ParseErrors(blocks) ==
    IF Len(blocks) = 0 THEN 0
    ELSE (IF parse_paper(Head(blocks)).exc = "none" THEN 0 ELSE 1)
         + ParseErrors(Tail(blocks))

FetchOutcome(e, f, r, ps, pr) ==
    [exc |-> e, flag |-> f, reqs |-> r, papers |-> ps, printed |-> pr]

\* BentyFieldsClient.fetch_daily_papers on a client whose _logged_in is li,
\* when the site serves page.
fetch_daily_papers(li, g, p, l, page, num_papers) ==
    LET a == ensure_logged_in(li, g, p)
        lreq == <<Exchange("GET /daily_arXiv_results", l)>>
    IN  IF a.exc # "none" THEN FetchOutcome(a.exc, a.flag, a.reqs, <<>>, 0)
        ELSE IF l = "conn_error"
        THEN FetchOutcome("ConnectionError", a.flag, a.reqs \o lreq, <<>>, 0)
        ELSE IF l = "http_error"
        THEN FetchOutcome("HTTPError", a.flag, a.reqs \o lreq, <<>>, 0)
        ELSE FetchOutcome("none", a.flag, a.reqs \o lreq,
                          ParseAll(PySliceTo(page, num_papers)),
                          ParseErrors(PySliceTo(page, num_papers)))

\* call_tool, fetch_daily_papers branch: the JSON result built from the papers
\* (its "date" entry echoes the date of the call and is left out).
ToolResult(papers, num_papers) ==
    [num_papers_requested |-> num_papers,
     count |-> Len(papers),
     papers |-> papers,
     message |-> IF Len(papers) = 0 THEN "No papers found" ELSE "none"]

\* Values of the tool's arguments and of config.json: None (the key is not
\* there), an integer, a string.
PyNone == [t |-> "none", v |-> 0]
PyInt(n) == [t |-> "int", v |-> n]
PyStr(text) == [t |-> "str", v |-> text]

DigitChar(n) == CHOOSE c \in Digits : DigitVal(c) = n

\* str(n) of a natural number: its decimal digits.
RECURSIVE str_int(_)
str_int(n) ==
    IF n < 10 THEN <<DigitChar(n)>>
    ELSE str_int(n \div 10) \o <<DigitChar(n % 10)>>

\* What an f-string makes of a value.
py_str(x) ==
    IF x.t = "int" THEN str_int(x.v)
    ELSE IF x.t = "str" THEN x.v
    ELSE <<"N", "o", "n", "e">>

\* datetime.now().strftime("%Y-%m-%d") on the day of the call.
Today == PyStr(<<"2", "0", "2", "6", "-", "0", "1", "-", "1", "2">>)

\* f"{date_str[:4]}-{date_str[4:6]}-{date_str[6:8]}"
dashed(date_str) ==
    SubSeq(date_str, 1, 4) \o <<"-">> \o SubSeq(date_str, 5, 6) \o <<"-">>
        \o SubSeq(date_str, 7, 8)

\* call_tool, fetch_daily_papers branch, lines 200-209: the date handed to the
\* client, from the date argument and the date of config.json.
resolve_date(argument, configured) ==
    IF argument.t # "none" THEN argument
    ELSE IF configured.t = "none" THEN Today
    ELSE IF configured.t = "int" /\ Len(str_int(configured.v)) = 8
    THEN PyStr(dashed(str_int(configured.v)))
    ELSE configured

DefaultNumPapers == 10

\* Lines 212-215: num_papers from the argument, else from config.json, else 10.
resolve_num_papers(argument, configured) ==
    IF argument.t # "none" THEN argument.v
    ELSE IF configured.t # "none" THEN configured.v
    ELSE DefaultNumPapers

\* fetch_daily_papers, lines 69-72: the date of the listing URL.
listing_url(date) ==
    [path |-> "https://www.benty-fields.com/daily_arXiv_results",
     date |-> IF date.t = "none" THEN Today.v ELSE py_str(date)]

\* get_client with _client assigned once the login of the new client has
\* succeeded: a failed login leaves no client.
get_client_assigning_after_login(cl, li, g, p) ==
    IF cl = "None"
    THEN [exc |-> login(FALSE, g, p).exc, flag |-> login(FALSE, g, p).flag,
          reqs |-> login(FALSE, g, p).reqs,
          client |-> IF login(FALSE, g, p).exc = "none"
                     THEN "BentyFieldsClient" ELSE "None"]
    ELSE [exc |-> "none", flag |-> li, reqs |-> <<>>, client |-> cl]

\* get_client() of a server whose config.json holds the credentials: the
\* first call makes the client, assigns it to _client and then logs in; a
\* later call returns _client as it is.
get_client(cl, li, g, p) ==
    IF cl = "None"
    THEN [exc |-> login(FALSE, g, p).exc, flag |-> login(FALSE, g, p).flag,
          reqs |-> login(FALSE, g, p).reqs, client |-> "BentyFieldsClient"]
    ELSE [exc |-> "none", flag |-> li, reqs |-> <<>>, client |-> cl]

\* The tool call: get_client(), then client.fetch_daily_papers(date,
\* num_papers=num_papers) and the result; an exception becomes the error
\* text of call_tool.
fetch_tool(cl, li, argument, configured, g, p, l, page) ==
    LET date == resolve_date(argument.date, configured.date)
        num_papers == resolve_num_papers(argument.num_papers,
                                         configured.num_papers)
        c == get_client(cl, li, g, p)
        f == fetch_daily_papers(c.flag, g, p, l, page, num_papers)
    IN  IF c.exc # "none"
        THEN [exc |-> c.exc, flag |-> c.flag, reqs |-> c.reqs, date |-> date,
              num_papers |-> num_papers, url |-> <<>>,
              result |-> ToolResult(<<>>, num_papers), papers |-> <<>>,
              printed |-> 0, client |-> c.client]
        ELSE [exc |-> f.exc, flag |-> f.flag, reqs |-> c.reqs \o f.reqs,
              date |-> date, num_papers |-> num_papers,
              url |-> IF \E i \in 1..Len(f.reqs) :
                            f.reqs[i].req = "GET /daily_arXiv_results"
                      THEN <<listing_url(date)>> ELSE <<>>,
              result |-> ToolResult(f.papers, num_papers),
              papers |-> f.papers, printed |-> f.printed,
              client |-> c.client]

\* The dates a caller or config.json gives: none, the integer 20260109 and a
\* shorter integer, the digits as a string, the dashed form.
DateValues ==
    {PyNone, PyInt(20260109), PyInt(202601),
     PyStr(<<"2", "0", "2", "6", "0", "1", "0", "9">>),
     PyStr(<<"2", "0", "2", "6", "-", "0", "1", "-", "0", "9">>)}
NumValues == {PyNone, PyInt(1), PyInt(2)}

NoCall ==
    [op |-> "none", arguments |-> [date |-> PyNone, num_papers |-> PyNone],
     config |-> [date |-> PyNone, num_papers |-> PyNone], date |-> PyNone,
     num_papers |-> 0, url |-> <<>>, exc |-> "none",
     result |-> ToolResult(<<>>, 0)]

ToolIdle == call = NoCall /\ client = "None"

NoRet ==
    [op |-> "none", num |-> 0, exc |-> "none", papers |-> <<>>, printed |-> 0,
     was_logged_in |-> FALSE, nreqs |-> 0]

ClientIdle ==
    /\ logged_in = FALSE
    /\ log = <<>>
    /\ ret = NoRet

ParseIdle ==
    /\ parseIn = Block(Absent, Absent, Absent, Absent, Absent)
    /\ parseOut = [done |-> FALSE, exc |-> "none", paper |-> NoPaper]

\* A caller invokes client.login().
Login ==
    /\ Len(log) < MaxLog
    /\ \E s \in LoginScripts :
          LET o == login(logged_in, s[1], s[2])
          IN  /\ logged_in' = o.flag
              /\ log' = log \o o.reqs
              /\ ret' = [op |-> "login", num |-> 0, exc |-> o.exc,
                         papers |-> <<>>, printed |-> 0,
                         was_logged_in |-> logged_in, nreqs |-> Len(o.reqs)]
    /\ UNCHANGED <<sitePage, parseVars, cacheVars, extractVars, synthVars, truncVars,
                   toolVars, raceVars, parityVars>>

\* A caller invokes client.fetch_daily_papers(date, num_papers).
FetchDailyPapers ==
    /\ Len(log) < MaxLog
    /\ \E s \in FetchScripts, n \in Nums :
          LET o == fetch_daily_papers(logged_in, s[1], s[2], s[3], sitePage, n)
          IN  /\ logged_in' = o.flag
              /\ log' = log \o o.reqs
              /\ ret' = [op |-> "fetch_daily_papers", num |-> n, exc |-> o.exc,
                         papers |-> o.papers, printed |-> o.printed,
                         was_logged_in |-> logged_in, nreqs |-> Len(o.reqs)]
    /\ UNCHANGED <<sitePage, parseVars, cacheVars, extractVars, synthVars, truncVars,
                   toolVars, raceVars, parityVars>>

\* The server handles a fetch_daily_papers tool call with the arguments a,
\* its config.json being c.
ToolFetch(a, c) ==
    /\ \E s \in FetchScripts :
          LET o == fetch_tool(client, logged_in, a, c, s[1], s[2], s[3],
                              sitePage)
          IN  /\ logged_in' = o.flag
              /\ client' = o.client
              /\ log' = log \o o.reqs
              /\ ret' = [op |-> "fetch_daily_papers", num |-> o.num_papers,
                         exc |-> o.exc, papers |-> o.papers,
                         printed |-> o.printed, was_logged_in |-> logged_in,
                         nreqs |-> Len(o.reqs)]
              /\ call' = [call EXCEPT !.op = "fetch_daily_papers",
                                      !.arguments = a, !.config = c,
                                      !.date = o.date,
                                      !.num_papers = o.num_papers,
                                      !.url = o.url, !.exc = o.exc,
                                      !.result = o.result]
    /\ UNCHANGED <<sitePage, parseVars, cacheVars, extractVars, synthVars,
                   truncVars, raceVars, parityVars>>

\* A server that has made no client yet, its config.json and the arguments
\* of a fetch_daily_papers call.
InitTool ==
    /\ ClientIdle
    /\ sitePage \in ClientPages
    /\ ParseIdle
    /\ CacheIdle
    /\ ExtractIdle
    /\ SynthIdle
    /\ TruncIdle
    /\ call \in {[NoCall EXCEPT !.arguments = a, !.config = c] :
                    a \in [date : DateValues, num_papers : NumValues],
                    c \in [date : DateValues, num_papers : NumValues]}
    /\ client = "None"
    /\ RaceIdle
    /\ ParityIdle

\* The first fetch_daily_papers tool call of a server.
CallToolFetch == call.op = "none" /\ ToolFetch(call.arguments, call.config)

SpecTool == InitTool /\ [][CallToolFetch]_vars

\* A server that has made no client yet and a site serving some page.
InitServer ==
    /\ ClientIdle
    /\ sitePage \in ClientPages
    /\ ParseIdle
    /\ CacheIdle
    /\ ExtractIdle
    /\ SynthIdle
    /\ TruncIdle
    /\ ToolIdle
    /\ RaceIdle
    /\ ParityIdle

\* One fetch_daily_papers tool call after another, with or without a
\* num_papers argument.
CallTool ==
    /\ Len(log) < MaxLog
    /\ \E n \in {PyNone, PyInt(1)} :
          ToolFetch([date |-> PyNone, num_papers |-> n], NoCall.config)

SpecServer == InitServer /\ [][CallTool]_vars

\* A fresh client, BentyFieldsClient.__init__, and a site serving some page.
Init ==
    /\ ClientIdle
    /\ sitePage \in ClientPages
    /\ ParseIdle
    /\ CacheIdle
    /\ ExtractIdle
    /\ SynthIdle
    /\ TruncIdle
    /\ ToolIdle
    /\ RaceIdle
    /\ ParityIdle

Next == Login \/ FetchDailyPapers

Spec == Init /\ [][Next]_vars

\* One fetch_daily_papers call of a fresh client, over every listing page.
InitListing ==
    /\ ClientIdle
    /\ sitePage \in Pages
    /\ ParseIdle
    /\ CacheIdle
    /\ ExtractIdle
    /\ SynthIdle
    /\ TruncIdle
    /\ ToolIdle
    /\ RaceIdle
    /\ ParityIdle

NextListing == log = <<>> /\ FetchDailyPapers

SpecListing == InitListing /\ [][NextListing]_vars

\* _parse_paper applied to one paper block.
InitParse ==
    /\ ClientIdle
    /\ sitePage = <<>>
    /\ parseIn \in ParseBlocks
    /\ parseOut = [done |-> FALSE, exc |-> "none", paper |-> NoPaper]
    /\ CacheIdle
    /\ ExtractIdle
    /\ SynthIdle
    /\ TruncIdle
    /\ ToolIdle
    /\ RaceIdle
    /\ ParityIdle

ParsePaper ==
    /\ ~parseOut.done
    /\ parseOut' = [done |-> TRUE, exc |-> parse_paper(parseIn).exc,
                    paper |-> parse_paper(parseIn).paper]
    /\ UNCHANGED <<clientVars, parseIn, cacheVars, extractVars, synthVars, truncVars,
                   toolVars, raceVars, parityVars>>

SpecParse == InitParse /\ [][ParsePaper]_vars

--------------------------------------------------------------------------
(* Operations on the cache.                                                *)

\* A caller invokes processor.download_paper_pdf(paper).
Acquire ==
    /\ nops < MaxOps
    /\ \E id \in Ids, r \in PdfResponses :
          LET o == download_paper_pdf(files, id, r)
          IN  /\ files' = o.fs
              /\ last' = OpRecord("download_paper_pdf", id, o,
                                  files[Path(id, "pdf")].exists)
    /\ prev' = last
    /\ nops' = nops + 1
    /\ UNCHANGED <<md_backend, clientVars, parseVars, extractVars, synthVars,
                   truncVars,
                   toolVars, raceVars, parityVars>>

\* A caller invokes processor.convert_and_save_markdown(pdf_path) with the
\* cache path of a paper.
ConvertAndSave ==
    /\ nops < MaxOps
    /\ \E id \in Ids, c \in {"ok", "fail"} :
          LET o == convert_and_save_markdown(files, md_backend,
                                             Path(id, "pdf"), c)
          IN  /\ files' = o.fs
              /\ last' = OpRecord("convert_and_save_markdown", id, o,
                                  files[Path(id, "md")].exists)
    /\ prev' = last
    /\ nops' = nops + 1
    /\ UNCHANGED <<md_backend, clientVars, parseVars, extractVars, synthVars,
                   truncVars,
                   toolVars, raceVars, parityVars>>

\* Cleanup from outside the program deletes a cached PDF.
ExternalCleanup ==
    /\ nops < MaxOps
    /\ \E id \in Ids :
          /\ files[Path(id, "pdf")].exists
          /\ files' = [files EXCEPT ![Path(id, "pdf")] = NoFile]
          /\ last' = [NoOp EXCEPT !.op = "external_cleanup", !.id = id,
                                  !.path = Path(id, "pdf")]
    /\ prev' = last
    /\ nops' = nops + 1
    /\ UNCHANGED <<md_backend, clientVars, parseVars, extractVars, synthVars,
                   truncVars,
                   toolVars, raceVars, parityVars>>

\* A processor over an empty cache directory, PDFProcessor.__init__.
InitCache ==
    /\ ClientIdle
    /\ sitePage = <<>>
    /\ ParseIdle
    /\ files = [p \in Paths |-> NoFile]
    /\ md_backend \in BOOLEAN
    /\ last = NoOp
    /\ prev = NoOp
    /\ nops = 0
    /\ ExtractIdle
    /\ SynthIdle
    /\ TruncIdle
    /\ ToolIdle
    /\ RaceIdle
    /\ ParityIdle

NextCache == Acquire \/ ConvertAndSave \/ ExternalCleanup

SpecCache == InitCache /\ [][NextCache]_vars

\* A caller invokes processor.extract_text(pdf_path) with the cache path of a
\* paper.
ExtractText ==
    /\ xret.op = "none"
    /\ \E id \in Ids, e1 \in {"ok", "fail"}, e2 \in {"ok", "fail"} :
          LET o == extract_text(files, pymupdf_available, pdfplumber_available,
                                Path(id, "pdf"), e1, e2)
          IN  xret' = [op |-> "extract_text", id |-> id, exc |-> o.exc,
                       text |-> o.text, tried |-> o.tried,
                       e1 |-> e1, e2 |-> e2]
    /\ UNCHANGED <<clientVars, parseVars, cacheVars, pymupdf_available,
                   pdfplumber_available, synthVars, truncVars,
                   toolVars, raceVars, parityVars>>

\* A processor, which PDFProcessor.__init__ builds only when one extraction
\* backend at least is installed, over a cache that holds some PDFs.
InitExtract ==
    /\ ClientIdle
    /\ sitePage = <<>>
    /\ ParseIdle
    /\ files \in {f \in [Paths -> PdfFiles] :
                     \A id \in Ids : f[Path(id, "md")] = NoFile}
    /\ md_backend = TRUE
    /\ last = NoOp
    /\ prev = NoOp
    /\ nops = 0
    /\ pymupdf_available \in BOOLEAN
    /\ pdfplumber_available \in BOOLEAN
    /\ pymupdf_available \/ pdfplumber_available
    /\ xret = NoExtract
    /\ SynthIdle
    /\ TruncIdle
    /\ ToolIdle
    /\ RaceIdle
    /\ ParityIdle

SpecExtract == InitExtract /\ [][ExtractText]_vars

\* The surroundings are asked only for what the call can come to use: no
\* narrative in the server, whose analysis lines are fixed; no download,
\* conversion or extraction without include_pdf_text; no conversion without
\* use_markdown.
Relevant(impl, include_pdf_text, use_markdown, d, ai) ==
    /\ impl = "server" => ai = "unconfigured"
    /\ ~include_pdf_text =>
          d = [r |-> [status |-> "ok", v |-> 1, arrive |-> DocChunks],
               c |-> "ok", e1 |-> "ok", e2 |-> "ok"]
    /\ ~use_markdown => d.c = "ok"

\* A caller invokes generate_daily_summary of generate_summary.py, or the
\* generate_daily_summary tool of the server, on one of the lists of papers,
\* in one of the surroundings, with one of the narratives and with one of the
\* outcomes of the write.
SynthesizeOn(lists, surroundings, narratives, writes) ==
    /\ sret.op = "none"
    /\ \E impl \in Impls, papers \in lists, include_pdf_text \in BOOLEAN,
          use_markdown \in BOOLEAN, d \in surroundings, ai \in narratives :
        /\ Relevant(impl, include_pdf_text, use_markdown, d, ai)
        /\ \E w \in {x \in WriteOutcomes(Len(papers)) : x.status \in writes} :
           \E o \in {generate_daily_summary(
                         impl, files, dest,
                         Flags(md_backend, pymupdf_available,
                               pdfplumber_available),
                         papers, include_pdf_text, use_markdown, d, ai, w)} :
              /\ files' = o.fs
              /\ dest' = o.dest
              /\ sret' = [op |-> "generate_daily_summary", impl |-> impl,
                          papers |-> papers,
                          include_pdf_text |-> include_pdf_text,
                          use_markdown |-> use_markdown, ai |-> ai,
                          exc |-> o.exc,
                          sections |-> o.sections, fsops |-> o.fsops,
                          result |-> o.result, dest_before |-> dest]
    /\ UNCHANGED <<clientVars, parseVars, md_backend, last, prev, nops,
                   extractVars, truncVars,
                   toolVars, raceVars, parityVars>>

\* A generate_daily_summary call on any list of papers.
Synthesize ==
    SynthesizeOn(PaperLists, Surroundings, Narratives, {"ok", "interrupted"})

\* A processor over a cache that holds the PDFs and the markdown files of
\* some papers, and an output_path where an earlier document may be.
InitSynth ==
    /\ ClientIdle
    /\ sitePage = <<>>
    /\ ParseIdle
    /\ files \in {f \in [Paths -> {NoFile, File(Doc(1)),
                                     File(to_markdown(Doc(1)))}] :
                     \A id \in Ids :
                        /\ f[Path(id, "pdf")] \in {NoFile, File(Doc(1))}
                        /\ f[Path(id, "md")] \in
                              {NoFile, File(to_markdown(Doc(1)))}}
    /\ md_backend \in BOOLEAN
    /\ last = NoOp
    /\ prev = NoOp
    /\ nops = 0
    /\ ExtractIdle
    /\ dest \in {NoDest, Dest(TRUE, TRUE, TRUE, <<>>)}
    /\ sret = NoSynth
    /\ TruncIdle
    /\ ToolIdle
    /\ RaceIdle
    /\ ParityIdle

SpecSynth == InitSynth /\ [][Synthesize]_vars

\* One caller over an empty cache directory: download_paper_pdf and
\* convert_and_save_markdown calls, with one generate_daily_summary call
\* before, between or after them.
InitReuse ==
    /\ ClientIdle
    /\ sitePage = <<>>
    /\ ParseIdle
    /\ files = [p \in Paths |-> NoFile]
    /\ md_backend \in BOOLEAN
    /\ last = NoOp
    /\ prev = NoOp
    /\ nops = 0
    /\ ExtractIdle
    /\ SynthIdle
    /\ TruncIdle
    /\ ToolIdle
    /\ RaceIdle
    /\ ParityIdle

\* A generate_daily_summary call on one paper, or on one paper given twice,
\* whose narrative is not configured, whose write completes and whose PDFs
\* the extraction backends read.
SynthesizeOnce ==
    SynthesizeOn({l \in PaperLists :
                     Len(l) \in 1..2 /\ \A i \in DOMAIN l : l[i] = l[1]},
                 {d \in Surroundings : d.e1 = "ok" /\ d.e2 = "ok"},
                 {"unconfigured"}, {"ok"})

AcquireStep == nops < MaxSteps /\ Acquire
ConvertStep == nops < MaxSteps /\ ConvertAndSave

NextReuse == AcquireStep \/ ConvertStep \/ SynthesizeOnce

SpecReuse == InitReuse /\ [][NextReuse]_vars

RaceUnchanged ==
    UNCHANGED <<clientVars, parseVars, cacheVars, extractVars, synthVars,
                truncVars, toolVars, served, parityVars>>

\* download_paper_pdf, lines 105-107: if pdf_path.exists(): return pdf_path.
CheckPdfPath(p) ==
    /\ callers[p].pc = "pdf_path.exists"
    /\ callers' = [callers EXCEPT ![p] =
                      IF pdf_file.exists THEN Returned(@, pdf_file, File(Doc(served)))
                      ELSE [@ EXCEPT !.pc = "save_path.exists"]]
    /\ UNCHANGED pdf_file
    /\ RaceUnchanged

\* download_pdf, lines 72-74: if save_path.exists(): return save_path.
CheckSavePath(p) ==
    /\ callers[p].pc = "save_path.exists"
    /\ callers' = [callers EXCEPT ![p] =
                      IF pdf_file.exists THEN Returned(@, pdf_file, File(Doc(served)))
                      ELSE [@ EXCEPT !.pc = "get"]]
    /\ UNCHANGED pdf_file
    /\ RaceUnchanged

\* Lines 82-83: requests.get(..., stream=True) and raise_for_status().
Get(p) ==
    /\ callers[p].pc = "get"
    /\ \E r \in {x \in PdfResponses : x.status = "ok" => x.v = served} :
          callers' = [callers EXCEPT ![p] =
                         IF r.status = "conn_error"
                         THEN [@ EXCEPT !.pc = "done",
                                        !.exc = "ConnectionError"]
                         ELSE IF r.status = "http_error"
                         THEN [@ EXCEPT !.pc = "done", !.exc = "HTTPError"]
                         ELSE [@ EXCEPT !.pc = "open", !.resp = r]]
    /\ UNCHANGED pdf_file
    /\ RaceUnchanged

\* Line 84: open(save_path, "wb") makes the file, or empties the one there.
Open(p) ==
    /\ callers[p].pc = "open"
    /\ pdf_file' = File(<<>>)
    /\ callers' = [callers EXCEPT ![p] =
                      [@ EXCEPT !.pc = "write", !.pos = 0, !.wrote = TRUE]]
    /\ RaceUnchanged

\* Lines 85-87: the next chunk of the response is written.
WriteChunk(p) ==
    /\ callers[p].pc = "write"
    /\ callers[p].pos < callers[p].resp.arrive
    /\ pdf_file' = File(write(pdf_file.data, callers[p].pos,
                              Doc(callers[p].resp.v)[callers[p].pos + 1]))
    /\ callers' = [callers EXCEPT ![p] = [@ EXCEPT !.pos = @ + 1]]
    /\ RaceUnchanged

\* The transfer breaks before the last chunk: iter_content raises, the file
\* is closed and the exception leaves download_paper_pdf.
TransferBreaks(p) ==
    /\ callers[p].pc = "write"
    /\ callers[p].pos = callers[p].resp.arrive
    /\ callers[p].resp.arrive < DocChunks
    /\ callers' = [callers EXCEPT ![p] =
                      [@ EXCEPT !.pc = "done",
                                !.exc = "ChunkedEncodingError"]]
    /\ UNCHANGED pdf_file
    /\ RaceUnchanged

\* Lines 88-90: the response is exhausted, the file is closed and save_path
\* is returned.
Return(p) ==
    /\ callers[p].pc = "write"
    /\ callers[p].pos = DocChunks
    /\ callers' = [callers EXCEPT ![p] = Returned(@, pdf_file, File(Doc(served)))]
    /\ UNCHANGED pdf_file
    /\ RaceUnchanged

\* Two callers enter download_paper_pdf for the same paper; the cache holds
\* its PDF or does not; the origin serves one revision of it.
InitRace ==
    /\ ClientIdle
    /\ sitePage = <<>>
    /\ ParseIdle
    /\ CacheIdle
    /\ ExtractIdle
    /\ SynthIdle
    /\ TruncIdle
    /\ ToolIdle
    /\ served \in Versions
    /\ pdf_file \in {NoFile, File(Doc(served))}
    /\ callers = [p \in Callers |->
                     [IdleCaller EXCEPT !.pc = "pdf_path.exists"]]
    /\ ParityIdle

NextRace ==
    \E p \in Callers :
        \/ CheckPdfPath(p)
        \/ CheckSavePath(p)
        \/ Get(p)
        \/ Open(p)
        \/ WriteChunk(p)
        \/ TransferBreaks(p)
        \/ Return(p)

SpecRace == InitRace /\ [][NextRace]_vars

\* generate_daily_summary of generate_summary.py and the tool of server.py,
\* each run on the same papers, with the same flags, over the same cache and
\* in the same surroundings.
SynthesizeBoth ==
    /\ ~both.done
    /\ \E papers \in PaperLists, include_pdf_text \in BOOLEAN,
          use_markdown \in BOOLEAN, d \in Surroundings :
        /\ Relevant("server", include_pdf_text, use_markdown, d,
                    "unconfigured")
        /\ \E fl \in {Flags(md_backend, pymupdf_available,
                             pdfplumber_available)} :
           \E a \in {assemble("script", files, fl, papers, include_pdf_text,
                               use_markdown, d, "unconfigured")},
              b \in {assemble("server", files, fl, papers, include_pdf_text,
                               use_markdown, d, "unconfigured")} :
              both' = [done |-> TRUE, papers |-> papers,
                       include_pdf_text |-> include_pdf_text,
                       use_markdown |-> use_markdown,
                       script |-> Run(a), server |-> Run(b)]
    /\ UNCHANGED <<clientVars, parseVars, cacheVars, extractVars, synthVars,
                   truncVars, toolVars, raceVars>>

\* As InitSynth: a cache that holds the PDFs and markdown files of some
\* papers.
InitParity ==
    /\ ClientIdle
    /\ sitePage = <<>>
    /\ ParseIdle
    /\ files \in {f \in [Paths -> {NoFile, File(Doc(1)),
                                     File(to_markdown(Doc(1)))}] :
                     \A id \in Ids :
                        /\ f[Path(id, "pdf")] \in {NoFile, File(Doc(1))}
                        /\ f[Path(id, "md")]
                              \in {NoFile, File(to_markdown(Doc(1)))}}
    /\ md_backend \in BOOLEAN
    /\ last = NoOp
    /\ prev = NoOp
    /\ nops = 0
    /\ ExtractIdle
    /\ SynthIdle
    /\ TruncIdle
    /\ ToolIdle
    /\ RaceIdle
    /\ both = NoBoth

SpecParity == InitParity /\ [][SynthesizeBoth]_vars

\* The content block of a section is made of a markdown file's content or of
\* an extracted text.
Truncate ==
    /\ ~truncOut.done
    /\ truncOut' = [done |-> TRUE,
                    block |-> IF truncIn.kind = "markdown"
                              THEN markdown_preview(truncIn.content)
                              ELSE text_preview(truncIn.content)]
    /\ UNCHANGED <<clientVars, parseVars, cacheVars, extractVars, synthVars,
                   truncIn, toolVars, raceVars, parityVars>>

InitTruncate ==
    /\ ClientIdle
    /\ sitePage = <<>>
    /\ ParseIdle
    /\ CacheIdle
    /\ ExtractIdle
    /\ SynthIdle
    /\ truncIn \in TruncInputs
    /\ truncOut = NoTrunc
    /\ ToolIdle
    /\ RaceIdle
    /\ ParityIdle

SpecTruncate == InitTruncate /\ [][Truncate]_vars

--------------------------------------------------------------------------
(* Properties of the client's session.                                     *)

ListingRequest == "GET /daily_arXiv_results"

\* The exchanges the last operation of the client made.
CallExchanges == SubSeq(log, Len(log) - ret.nreqs + 1, Len(log))

LoginSucceededBefore(i) ==
    \E j \in 2..(i - 1) :
        /\ log[j] = Exchange("POST /login", "ok")
        /\ log[j - 1] = Exchange("GET /login", "ok")

\* C1: a listing request is issued only after a login succeeded on the client;
\* a fetch_daily_papers call on an unauthenticated client starts with a login,
\* and when that login fails the call raises and issues no listing request.
C1_ListingOnlyAfterLogin ==
    /\ \A i \in 1..Len(log) :
          log[i].req = ListingRequest => LoginSucceededBefore(i)
    /\ (ret.op = "fetch_daily_papers" /\ ~ret.was_logged_in) =>
          /\ ret.nreqs >= 1
          /\ CallExchanges[1].req = "GET /login"
          /\ (~\E k \in 1..ret.nreqs :
                  CallExchanges[k] = Exchange("POST /login", "ok")) =>
                /\ ret.exc # "none"
                /\ \A k \in 1..ret.nreqs : CallExchanges[k].req # ListingRequest
                /\ ret.papers = <<>>

\* A fetch_daily_papers call, after an earlier failed operation, on a client
\* still unauthenticated, whose login failed.
C1_Witness ==
    /\ ret.op = "fetch_daily_papers"
    /\ ~ret.was_logged_in
    /\ ~logged_in
    /\ ret.exc = "RuntimeError: Login failed - check credentials"
    /\ Len(log) > ret.nreqs

\* C9: _logged_in becomes true only in a login whose form GET and credentials
\* POST both succeed with the logout marker in the POST body; a non-success
\* status raises HTTPError, a body without the marker raises the login-failed
\* error, and a failing login leaves the flag as it was, so an unauthenticated
\* session stays unauthenticated.
C9_LoginSetsFlagOnlyOnSuccess ==
    LET x == CallExchanges
        attempted == ret.nreqs >= 1 /\ x[1].req = "GET /login"
        succeeded == /\ ret.nreqs >= 2
                     /\ x[1] = Exchange("GET /login", "ok")
                     /\ x[2] = Exchange("POST /login", "ok")
    IN  /\ logged_in => \E i \in 1..Len(log) : LoginSucceededBefore(i + 1)
        /\ (ret.op # "none" /\ logged_in /\ ~ret.was_logged_in) => succeeded
        /\ (ret.op # "none" /\ attempted /\ ~succeeded) =>
              /\ logged_in = ret.was_logged_in
              /\ ret.exc # "none"
              /\ x[ret.nreqs].resp = "http_error" => ret.exc = "HTTPError"
              /\ x[ret.nreqs].resp = "no_logout" =>
                    ret.exc = "RuntimeError: Login failed - check credentials"

\* A login made the POST, got a success status without the marker, and the
\* session is still unauthenticated.
C9_Witness ==
    /\ ret.op = "login"
    /\ ret.nreqs = 2
    /\ CallExchanges[2] = Exchange("POST /login", "no_logout")
    /\ ~logged_in

\* C10: when the login form has no csrf_token input, login raises the
\* token-not-found error without posting the credentials, _logged_in is left
\* unset, and a fetch_daily_papers that ran this login raises without a
\* listing request.
C10_MissingTokenStopsLogin ==
    (ret.op # "none" /\ ret.nreqs >= 1
       /\ CallExchanges[1] = Exchange("GET /login", "no_token")) =>
        /\ ret.exc = "RuntimeError: Could not find CSRF token on login page"
        /\ ret.nreqs = 1
        /\ logged_in = ret.was_logged_in
        /\ ret.papers = <<>>
        /\ \A i \in 1..Len(log) : log[i].req = "POST /login" =>
              log[i - 1] = Exchange("GET /login", "ok")

\* A fetch_daily_papers call whose login met a form without the token.
C10_Witness ==
    /\ ret.op = "fetch_daily_papers"
    /\ ~ret.was_logged_in
    /\ CallExchanges = <<Exchange("GET /login", "no_token")>>
    /\ ~logged_in

LoginRequests == {"GET /login", "POST /login"}

\* C11: a fetch_daily_papers call on an authenticated client issues the
\* listing request and no login request; a fetch_daily_papers call holds a
\* successful login only when it started unauthenticated, and the flag, once
\* set, stays set: over any sequence of fetch_daily_papers calls at most one
\* of them authenticates.
C11_NoLoginOnceAuthenticated ==
    /\ [][(ret'.op = "fetch_daily_papers" /\ log' # log) =>
            LET new == SubSeq(log', Len(log) + 1, Len(log'))
            IN  /\ logged_in =>
                      /\ Len(new) = 1
                      /\ new[1].req = ListingRequest
                      /\ logged_in'
                /\ (\E k \in 1..Len(new) :
                        new[k] = Exchange("POST /login", "ok")) =>
                      (~logged_in /\ logged_in')]_vars
    /\ [][logged_in => logged_in']_vars

\* A fetch_daily_papers call that logged in, followed by a second one that
\* issued the listing request alone.
C11_Witness ==
    /\ ret.op = "fetch_daily_papers"
    /\ ret.was_logged_in
    /\ log = <<Exchange("GET /login", "ok"), Exchange("POST /login", "ok"),
               Exchange(ListingRequest, "ok"), Exchange(ListingRequest, "ok")>>

\* C12 as stated: login() on an authenticated client makes no request and
\* leaves the session as it was.
C12_Original ==
    (ret.op = "login" /\ ret.was_logged_in) =>
        (ret.nreqs = 0 /\ ret.exc = "none" /\ logged_in)

\* C12: the guard is what is idempotent: a fetch_daily_papers call on an
\* authenticated client makes no login request and leaves the flag set; a
\* direct login() on an authenticated client logs in again (it requests the
\* form, and raises when this login fails) and leaves the flag set whatever
\* the outcome.
C12_GuardIdempotentLoginUnconditional ==
    LET x == CallExchanges
    IN  /\ (ret.op = "fetch_daily_papers" /\ ret.was_logged_in) =>
              /\ \A k \in 1..ret.nreqs : x[k].req \notin LoginRequests
              /\ logged_in
        /\ (ret.op = "login" /\ ret.was_logged_in) =>
              /\ ret.nreqs >= 1
              /\ x[1].req = "GET /login"
              /\ logged_in
              /\ ret.exc = "none" <=> x[ret.nreqs] = Exchange("POST /login", "ok")

\* A login() on an authenticated client that failed at the POST: two requests
\* made, the flag still set.
C12_Witness ==
    /\ ret.op = "login"
    /\ ret.was_logged_in
    /\ ret.nreqs = 2
    /\ ret.exc = "RuntimeError: Login failed - check credentials"
    /\ logged_in

--------------------------------------------------------------------------
(* Properties of text extraction.                                          *)

\* The last operation was an extract_text on a PDF that is in the cache.
Extracted ==
    xret.op = "extract_text" /\ files[Path(xret.id, "pdf")].exists

\* C19: extract_text tries PyMuPDF first and pdfplumber only when PyMuPDF is
\* not installed or failed; it returns the text of the first backend that
\* succeeds; and when no backend is left (PyMuPDF failed and pdfplumber is not
\* installed, or both failed) it raises one and the same extraction error.
C19_FallbackOrderOneErrorKind ==
    Extracted =>
        /\ xret.tried \in {<<"pymupdf">>, <<"pdfplumber">>,
                            <<"pymupdf", "pdfplumber">>}
        /\ xret.tried[1] = "pymupdf" <=> pymupdf_available
        /\ Len(xret.tried) = 2 => (xret.e1 = "fail" /\ pdfplumber_available)
        /\ xret.exc = "none" =>
              xret.text = text_of(xret.tried[Len(xret.tried)],
                                  files[Path(xret.id, "pdf")].data)
        /\ xret.exc # "none" =>
              xret.exc = "RuntimeError: No PDF extraction library available"

\* C27: extract_text on a path where no PDF is raises FileNotFoundError
\* before it tries a backend, whichever backends are installed and whatever
\* they would have made of the file.
C27_MissingPdfNotFoundBeforeBackends ==
    (xret.op = "extract_text" /\ ~files[Path(xret.id, "pdf")].exists) =>
        /\ xret.exc = "FileNotFoundError"
        /\ xret.tried = <<>>
        /\ xret.text = <<>>

\* An extract_text call on a paper whose PDF is not in the cache, with both
\* backends installed and able.
C27_Witness ==
    /\ xret.op = "extract_text"
    /\ ~files[Path(xret.id, "pdf")].exists
    /\ pymupdf_available
    /\ pdfplumber_available
    /\ xret.e1 = "ok"
    /\ xret.e2 = "ok"
    /\ xret.exc = "FileNotFoundError"

--------------------------------------------------------------------------
(* Properties of the listing parser.                                       *)

WellFormed(b) == parse_paper(b).exc = "none"

\* The last operation was a fetch_daily_papers whose listing GET succeeded.
ListingFetched ==
    /\ ret.op = "fetch_daily_papers"
    /\ ret.nreqs >= 1
    /\ CallExchanges[ret.nreqs] = Exchange(ListingRequest, "ok")

\* The blocks the call looked at: the first num_papers of the page.
Considered == PySliceTo(sitePage, ret.num)

GoodPositions(blocks) == {i \in 1..Len(blocks) : WellFormed(blocks[i])}

\* The position in blocks of its k-th well-formed block.
KthGood(blocks, k) ==
    CHOOSE i \in GoodPositions(blocks) :
        Cardinality({j \in GoodPositions(blocks) : j < i}) = k - 1

RanksIncrease(papers) ==
    \A i, j \in 1..Len(papers) : i < j => papers[i].rank < papers[j].rank

\* C5 as stated: with N the number of well-formed blocks of the page and
\* L >= 1, exactly min(N, L) records come back, ranks strictly increasing.
C5_Original ==
    (ListingFetched /\ ret.num >= 1) =>
        /\ ret.exc = "none"
        /\ Len(ret.papers) = Min(Cardinality(GoodPositions(sitePage)), ret.num)
        /\ RanksIncrease(ret.papers)

\* C5, amended: for L >= 1 the call returns one record for each well-formed
\* block among the first L blocks of the page; when those blocks are all
\* well-formed these are min(N, L) records, N the number of blocks of the
\* page, the i-th being the record of the i-th block with the rank its
\* heading states, so ranks increase strictly when the headings' ranks do.
C5_FirstBlocksInPageOrder ==
    (ListingFetched /\ ret.num >= 1) =>
        /\ ret.exc = "none"
        /\ Len(ret.papers) =
              Cardinality({i \in 1..Min(Len(sitePage), ret.num) :
                              WellFormed(sitePage[i])})
        /\ (\A i \in 1..Min(Len(sitePage), ret.num) : WellFormed(sitePage[i])) =>
              /\ Len(ret.papers) = Min(Len(sitePage), ret.num)
              /\ \A i \in 1..Len(ret.papers) :
                    /\ ret.papers[i] = parse_paper(sitePage[i]).paper
                    /\ ret.papers[i].rank =
                          IntOf(SplitFirst(sitePage[i].h4.text, "."))
              /\ (\A i, j \in 1..Min(Len(sitePage), ret.num) :
                      i < j => IntOf(SplitFirst(sitePage[i].h4.text, "."))
                               < IntOf(SplitFirst(sitePage[j].h4.text, ".")))
                    => RanksIncrease(ret.papers)

\* A page of three well-formed blocks cut to two records by the limit.
C5_Witness ==
    /\ ListingFetched
    /\ ret.num = 2
    /\ Len(sitePage) = 3
    /\ \A i \in 1..3 : WellFormed(sitePage[i])
    /\ Len(ret.papers) = 2
    /\ ret.papers[1].rank < ret.papers[2].rank

\* C6: a block that fails to parse is left out and nothing else is: the call
\* returns normally, with the records of the well-formed blocks among the
\* considered ones, in page order.
C6_ParseFailureSkipsOnlyTheEntry ==
    ListingFetched =>
        /\ ret.exc = "none"
        /\ Len(ret.papers) = Cardinality(GoodPositions(Considered))
        /\ \A k \in 1..Len(ret.papers) :
              ret.papers[k] =
                  parse_paper(Considered[KthGood(Considered, k)]).paper
        /\ ret.printed = Len(Considered) - Len(ret.papers)

\* A considered block failed to parse and a later one is in the result.
C6_Witness ==
    /\ ListingFetched
    /\ ret.exc = "none"
    /\ \E i, j \in 1..Len(Considered) :
          /\ i < j
          /\ ~WellFormed(Considered[i])
          /\ WellFormed(Considered[j])
    /\ Len(ret.papers) >= 1

\* What the caller of the tool gets when the site serves page.
ReportFor(page, num_papers) ==
    ToolResult(fetch_daily_papers(TRUE, "ok", "ok", "ok", page, num_papers).papers,
               num_papers)

\* The considered blocks that parse, as a page of their own.
RECURSIVE OnlyGood(_)
OnlyGood(blocks) ==
    IF Len(blocks) = 0 THEN <<>>
    ELSE IF WellFormed(Head(blocks)) THEN <<Head(blocks)>> \o OnlyGood(Tail(blocks))
    ELSE OnlyGood(Tail(blocks))

\* C7: what the caller gets for a page whose blocks all fail to parse differs
\* from what it gets for a page without blocks, and what it gets for a page
\* with skipped blocks differs from what it gets for the page of the parsed
\* blocks alone.
C7_ParserFailureDistinguished ==
    (ListingFetched /\ ret.exc = "none" /\ ret.num >= 1) =>
        /\ (Len(Considered) > 0 /\ GoodPositions(Considered) = {}) =>
              /\ ret.papers # fetch_daily_papers(TRUE, "ok", "ok", "ok", <<>>,
                                                 ret.num).papers
              /\ ToolResult(ret.papers, ret.num) # ReportFor(<<>>, ret.num)
        /\ ret.printed > 0 =>
              ToolResult(ret.papers, ret.num)
                  # ReportFor(OnlyGood(Considered), ret.num)

\* C25: fetch_daily_papers enforces num_papers >= 1: a call with num_papers
\* below 1 returns no record taken from the page, and a call with
\* num_papers >= 1 returns at most num_papers records.
C25_LimitBelowOneGivesNoRecords ==
    ListingFetched =>
        /\ ret.num < 1 => ret.papers = <<>>
        /\ ret.num >= 1 => Len(ret.papers) <= ret.num

--------------------------------------------------------------------------
(* Properties of _parse_paper.                                             *)

\* The position of the "v" of a trailing version marker, a "v" followed by
\* digits up to the end of the text; 0 when the text has no such marker.
MarkerAt(s) ==
    IF \E k \in 1..(Len(s) - 1) :
           s[k] = "v" /\ \A j \in (k + 1)..Len(s) : s[j] \in Digits
    THEN CHOOSE k \in 1..(Len(s) - 1) :
           s[k] = "v" /\ \A j \in (k + 1)..Len(s) : s[j] \in Digits
    ELSE 0

\* C8: the version label of a parsed record is its identifier followed by the
\* version marker: the identifier is the label without its trailing marker,
\* also when the identifier itself holds a "v".
C8_IdentifierStripsTrailingMarker ==
    (/\ parseOut.done
     /\ parseOut.exc = "none"
     /\ MarkerAt(parseOut.paper.arxiv_version) # 0) =>
        parseOut.paper.arxiv_id =
            SubSeq(parseOut.paper.arxiv_version, 1,
                   MarkerAt(parseOut.paper.arxiv_version) - 1)

--------------------------------------------------------------------------
(* Properties of the cache.                                                *)

\* C2: after a download_paper_pdf that raised, no file is at the paper's
\* cache path.
C2_NoFileAfterFailedDownload ==
    (last.op = "download_paper_pdf" /\ last.exc # "none") =>
        ~files[Path(last.id, "pdf")].exists

\* C3: a download_paper_pdf that finds the paper's PDF in the cache returns
\* its path and makes no HTTP request; of two successive calls for one paper,
\* the first returning normally, the second makes no request and returns the
\* same path, and the two make one download when the first missed the cache.
C3_CacheHitMakesNoRequest ==
    /\ (last.op = "download_paper_pdf" /\ last.hit) =>
          /\ last.exc = "none"
          /\ last.reqs = 0
          /\ last.path = Path(last.id, "pdf")
    /\ (/\ prev.op = "download_paper_pdf"
        /\ prev.exc = "none"
        /\ last.op = "download_paper_pdf"
        /\ last.id = prev.id) =>
          /\ last.exc = "none"
          /\ last.reqs = 0
          /\ last.path = prev.path
          /\ prev.reqs + last.reqs = (IF prev.hit THEN 0 ELSE 1)

\* A download that missed the cache and succeeded, then a second call for the
\* same paper.
C3_Witness ==
    /\ prev.op = "download_paper_pdf"
    /\ prev.exc = "none"
    /\ ~prev.hit
    /\ prev.reqs = 1
    /\ last.op = "download_paper_pdf"
    /\ last.id = prev.id
    /\ last.hit

\* C4: a convert_and_save_markdown that finds the markdown file returns its
\* path, converts nothing and leaves the file as it is, whatever the PDF now
\* holds; of two successive calls for one PDF, the first returning normally,
\* the second converts nothing.
C4_MarkdownConvertedOnce ==
    /\ [][(/\ nops' = nops + 1
           /\ last'.op = "convert_and_save_markdown"
           /\ files[Path(last'.id, "md")].exists) =>
              /\ last'.exc = "none"
              /\ last'.convs = 0
              /\ last'.path = Path(last'.id, "md")
              /\ files' = files]_vars
    /\ [](/\ prev.op = "convert_and_save_markdown"
          /\ prev.exc = "none"
          /\ last.op = "convert_and_save_markdown"
          /\ last.id = prev.id
          => /\ last.convs = 0
             /\ prev.convs + last.convs = (IF prev.hit THEN 0 ELSE 1))

\* A call that found the markdown of an earlier revision of the PDF: the
\* cached PDF was replaced since the markdown was written.
C4_Witness ==
    /\ last.op = "convert_and_save_markdown"
    /\ last.hit
    /\ last.exc = "none"
    /\ files[Path(last.id, "pdf")].exists
    /\ files[Path(last.id, "md")].data
          # to_markdown(files[Path(last.id, "pdf")].data)

\* The last operation was a convert_and_save_markdown that found no markdown
\* file and so called convert_to_markdown, with pymupdf4llm not installed.
ConvertedWithoutBackend ==
    /\ last.op = "convert_and_save_markdown"
    /\ ~last.hit
    /\ ~md_backend

Unsupported == "RuntimeError: pymupdf4llm is not available"

\* C26 as stated: without pymupdf4llm, convert_to_markdown raises the
\* not-available error for every path, a path where no PDF is included, and
\* converts nothing.
C26_Original ==
    ConvertedWithoutBackend =>
        /\ last.exc = Unsupported
        /\ last.convs = 0

\* C26, amended: without pymupdf4llm, convert_to_markdown converts nothing
\* and always raises: the not-available error for every path where a PDF is,
\* FileNotFoundError for a path where no PDF is (the existence of the file is
\* tested first); no markdown file is written.
C26_NoBackendNoConversion ==
    ConvertedWithoutBackend =>
        /\ last.convs = 0
        /\ ~files[Path(last.id, "md")].exists
        /\ files[Path(last.id, "pdf")].exists => last.exc = Unsupported
        /\ ~files[Path(last.id, "pdf")].exists =>
              last.exc = "FileNotFoundError"

\* A conversion asked for a cached PDF on an installation without
\* pymupdf4llm.
C26_Witness ==
    /\ ConvertedWithoutBackend
    /\ files[Path(last.id, "pdf")].exists
    /\ last.exc = Unsupported
    /\ last.convs = 0

\* The calls of the named operation made for a section that did work (a
\* request, a conversion).
Worked(sec, name) ==
    {k \in 1..Len(sec.calls) : sec.calls[k].op = name /\ sec.calls[k].work > 0}

\* C23: a file of the cache directory, once there, is never rewritten,
\* truncated or deleted by a later download_paper_pdf,
\* convert_and_save_markdown or generate_daily_summary of the one caller, and
\* a later operation on its paper uses it as it is: download_paper_pdf makes
\* no request, convert_and_save_markdown converts nothing, and a section of
\* a summary begun with the file in the cache downloads or converts nothing.
C23_CachedFilesImmutable ==
    [][/\ \A p \in Paths : files[p].exists => files'[p] = files[p]
       /\ (/\ nops' = nops + 1
           /\ last'.op = "download_paper_pdf"
           /\ files[Path(last'.id, "pdf")].exists) =>
             /\ last'.hit
             /\ last'.exc = "none"
             /\ last'.reqs = 0
             /\ last'.path = Path(last'.id, "pdf")
       /\ (/\ nops' = nops + 1
           /\ last'.op = "convert_and_save_markdown"
           /\ files[Path(last'.id, "md")].exists) =>
             /\ last'.hit
             /\ last'.exc = "none"
             /\ last'.convs = 0
             /\ last'.path = Path(last'.id, "md")
       /\ (sret.op = "none" /\ sret'.op # "none") =>
             \A i \in 1..Len(sret'.sections) :
                LET sec == sret'.sections[i]
                IN  /\ sec.had_pdf => Worked(sec, "download_paper_pdf") = {}
                    /\ sec.had_md =>
                          Worked(sec, "convert_and_save_markdown") = {}
      ]_vars

\* A summary downloaded and converted the PDF of its paper for its first
\* section and used both files for its second; a later download_paper_pdf
\* for the paper found the PDF as the summary left it.
C23_Witness ==
    /\ sret.op = "generate_daily_summary"
    /\ Len(sret.sections) = 2
    /\ Worked(sret.sections[1], "download_paper_pdf") # {}
    /\ Worked(sret.sections[1], "convert_and_save_markdown") # {}
    /\ sret.sections[2].had_pdf
    /\ sret.sections[2].had_md
    /\ sret.sections[2].content.kind = "markdown"
    /\ last.op = "download_paper_pdf"
    /\ last.id = sret.papers[1].arxiv_id
    /\ last.hit
    /\ files[Path(last.id, "pdf")] = File(Doc(1))

--------------------------------------------------------------------------
(* Properties of the synthesis.                                            *)

Synthesized == sret.op = "generate_daily_summary"

\* The calls made for the content of section i and the last of them.
CallsOf(i) == sret.sections[i].calls
LastCall(i) == CallsOf(i)[Len(CallsOf(i))]

\* The content of section i failed: the last call made for it raised.
EnrichmentFailed(i) == CallsOf(i) # <<>> /\ LastCall(i).exc # "none"

\* The exceptions that end a call: the narrative's reply is JSON that is not
\* an object (generate_summary.py alone), or the write of the file breaks.
NarrativeAbort == "AttributeError"
WriteAbort == "OSError"

\* C13: the sections assembled match the input papers one to one and in
\* order, each with the heading (rank and title), the authors, the
\* identifier with its version label, the abstract and both links of its
\* paper, whatever include_pdf_text and use_markdown are and whatever became
\* of the content; a call that returns has written one section for every
\* paper.
C13_OneSectionPerPaperInOrder ==
    Synthesized =>
        /\ Len(sret.sections) <= Len(sret.papers)
        /\ \A i \in 1..Len(sret.sections) :
              LET p == sret.papers[i]
                  m == sret.sections[i].meta
              IN  /\ m.heading = <<p.rank, p.title>>
                  /\ m.authors = p.authors
                  /\ m.arxiv_id_line = <<p.arxiv_id, p.arxiv_version>>
                  /\ m.abstract = p.abstract
                  /\ m.abstract_link = p.abs_url
                  /\ m.pdf_link = p.pdf_url
        /\ sret.exc # NarrativeAbort => Len(sret.sections) = Len(sret.papers)
        /\ sret.exc = "none" =>
              (dest.exists /\ dest.header /\ dest.sections = sret.sections)

\* A call that returned, on two papers given against their ranks, the content
\* of the first having failed and that of the second being there.
C13_Witness ==
    /\ Synthesized
    /\ sret.exc = "none"
    /\ sret.papers = <<SynthPaper("b"), SynthPaper("a")>>
    /\ sret.sections[1].content.kind = "notice"
    /\ sret.sections[2].content.kind = "markdown"

\* C14: with include_pdf_text, a section whose content failed (the download,
\* the conversion and the extraction it came to all counted) holds the notice
\* of the exception and no content block, and a notice stands only there; the
\* exception does not end the call: a call ends early only by a narrative
\* that is not a dictionary or by a broken write, and short of the former
\* every paper has its section, the failing section has its analysis block
\* and the file is written.
C14_FailureGivesNoticeAndGoesOn ==
    (Synthesized /\ sret.include_pdf_text) =>
        /\ sret.exc \in {"none", NarrativeAbort, WriteAbort}
        /\ \A i \in 1..Len(sret.sections) :
              /\ sret.sections[i].content.kind = "notice" <=> EnrichmentFailed(i)
              /\ EnrichmentFailed(i) =>
                    /\ sret.sections[i].content = Notice(LastCall(i).exc)
                    /\ sret.exc # NarrativeAbort =>
                          /\ \A k \in AnalysisKeys :
                                sret.sections[i].analysis[k] # "absent"
                          /\ Len(sret.sections) = Len(sret.papers)
                          /\ sret.fsops = <<"mkdir", "open", "write">>
                          /\ dest.exists
                    /\ sret.exc = "none" => dest.sections = sret.sections

\* A call that returned on two papers: the conversion and then the extraction
\* of the first failed, the second has its content.
C14_Witness ==
    /\ Synthesized
    /\ sret.exc = "none"
    /\ Len(sret.sections) = 2
    /\ Len(CallsOf(1)) = 2
    /\ CallsOf(1)[1].op = "convert_and_save_markdown"
    /\ CallsOf(1)[1].exc # "none"
    /\ LastCall(1).op = "extract_text"
    /\ LastCall(1).exc # "none"
    /\ sret.sections[1].content.kind = "notice"
    /\ sret.sections[2].content.kind = "markdown"
    /\ dest.sections = sret.sections

\* C15: with include_pdf_text, a section begun with no PDF of its paper in
\* the cache starts with a download_paper_pdf and ends with a content block
\* or a notice.
C15_MissingPdfAcquiredOnDemand ==
    (Synthesized /\ sret.include_pdf_text) =>
        \A i \in 1..Len(sret.sections) :
            ~sret.sections[i].had_pdf =>
                /\ CallsOf(i) # <<>>
                /\ CallsOf(i)[1].op = "download_paper_pdf"
                /\ sret.sections[i].content.kind # "none"

\* C16: with include_pdf_text, a section begun with the PDF of its paper in
\* the cache makes no download and takes its content from that PDF: without
\* use_markdown it calls extract_text and holds a text block when that
\* succeeds, with use_markdown it holds a markdown block when the markdown
\* file is there or the conversion succeeds.
C16_CachedPdfIsTheSource ==
    (Synthesized /\ sret.include_pdf_text) =>
        \A i \in 1..Len(sret.sections) :
            sret.sections[i].had_pdf =>
                /\ \A k \in 1..Len(CallsOf(i)) :
                      CallsOf(i)[k].op # "download_paper_pdf"
                /\ CallsOf(i) # <<>>
                /\ ~sret.use_markdown =>
                      /\ LastCall(i).op = "extract_text"
                      /\ LastCall(i).exc = "none" =>
                            sret.sections[i].content.kind = "text"
                /\ sret.use_markdown =>
                      /\ CallsOf(i)[1].op \in {"convert_and_save_markdown",
                                                "read_markdown"}
                      /\ LastCall(i).op = "read_markdown" =>
                            sret.sections[i].content.kind = "markdown"

\* C17: with use_markdown an extract_text call comes only right after a
\* convert_and_save_markdown that raised, a section with a markdown block
\* made no extract_text call, and no conversion is run for a paper whose
\* markdown file is in the cache; without use_markdown no section makes a
\* conversion or reads a markdown file.
C17_MarkdownFirstTextOnlyAfter ==
    Synthesized =>
        \A i \in 1..Len(sret.sections) :
            LET c == CallsOf(i)
            IN  \A k \in 1..Len(c) :
                  /\ (sret.use_markdown /\ c[k].op = "extract_text") =>
                        /\ k > 1
                        /\ c[k - 1].op = "convert_and_save_markdown"
                        /\ c[k - 1].exc # "none"
                        /\ sret.sections[i].content.kind # "markdown"
                  /\ (c[k].op = "convert_and_save_markdown"
                        /\ sret.sections[i].had_md) => c[k].work = 0
                  /\ ~sret.use_markdown =>
                        /\ c[k].op \notin {"convert_and_save_markdown",
                                            "read_markdown"}
                        /\ sret.sections[i].content.kind # "markdown"

\* A section whose conversion failed and whose text was then extracted.
C17_Witness ==
    /\ Synthesized
    /\ sret.use_markdown
    /\ Len(sret.sections) >= 1
    /\ Len(CallsOf(1)) = 2
    /\ CallsOf(1)[1] = Call("convert_and_save_markdown",
                            "RuntimeError: PDF to Markdown conversion failed", 1)
    /\ CallsOf(1)[2].op = "extract_text"
    /\ CallsOf(1)[2].exc = "none"
    /\ sret.sections[1].content.kind = "text"

\* C20: the file at output_path is written once, after the sections are
\* assembled and its parent directory is made, and it never holds a part of
\* the document: after a call it is as it was before, or it holds the header
\* and every section.
C20_DestinationNeverPartial ==
    Synthesized =>
        /\ sret.fsops \in {<<>>, <<"mkdir", "open", "write">>}
        /\ dest # sret.dest_before => dest.dir
        /\ \/ dest = sret.dest_before
           \/ /\ dest.exists
              /\ dest.header
              /\ dest.sections = sret.sections
              /\ Len(sret.sections) = Len(sret.papers)

\* The four parts of a section are all there.
FourParts(sec) ==
    /\ DOMAIN sec.analysis = AnalysisKeys
    /\ \A k \in AnalysisKeys : sec.analysis[k] # "absent"

C22_ResultCountsInputPapers ==
    (Synthesized /\ sret.exc = "none") =>
        /\ sret.result.papers_count = Len(sret.papers)
        /\ sret.result.papers_count = Len(dest.sections)
        /\ sret.result.file_size = st_size(dest)
        /\ sret.result.file_size = 1 + Len(sret.papers)
        /\ sret.papers = <<>> =>
              /\ dest = Dest(TRUE, TRUE, TRUE, <<>>)
              /\ sret.result = [papers_count |-> 0, file_size |-> 1]

\* A call that returned on the same paper given twice: two sections, a count
\* of two.
C22_Witness ==
    /\ Synthesized
    /\ sret.exc = "none"
    /\ sret.papers = <<SynthPaper("a"), SynthPaper("a")>>
    /\ Len(dest.sections) = 2
    /\ sret.result.papers_count = 2

\* A call that returned on no paper.
C22_WitnessEmpty ==
    /\ Synthesized
    /\ sret.exc = "none"
    /\ sret.papers = <<>>
    /\ sret.result.papers_count = 0

--------------------------------------------------------------------------
(* Properties of the truncation.                                           *)

\* C18: a content longer than its bound (10000 characters for markdown, 5000
\* for text) gives a block of the bound plus the marker's length, made of the
\* first characters of the content up to the bound and then the marker; a
\* content at or under the bound, one of exactly the bound included, is the
\* block as it stands.
C18_TruncationLaw ==
    truncOut.done =>
        LET src == truncIn.content
            bound == IF truncIn.kind = "markdown" THEN 10000 ELSE 5000
            marker == IF truncIn.kind = "markdown" THEN MarkdownMarker
                      ELSE TextMarker
            block == truncOut.block
        IN  /\ Len(MarkdownMarker) = 58 /\ Len(TextMarker) = 3
            /\ Len(src) > bound =>
                  /\ Len(block) = bound + Len(marker)
                  /\ \A j \in 1..bound : block[j] = src[j]
                  /\ \A j \in 1..Len(marker) : block[bound + j] = marker[j]
            /\ Len(src) <= bound => block = src

\* A markdown content of exactly the bound, kept as it is.
C18_Witness ==
    /\ truncOut.done
    /\ truncIn.kind = "markdown"
    /\ Len(truncIn.content) = MarkdownBound
    /\ truncOut.block = truncIn.content

--------------------------------------------------------------------------
(* Properties of the fetch_daily_papers tool.                              *)

\* The date the call was given: the argument, else the value of config.json.
GivenDate ==
    IF call.arguments.date.t # "none" THEN call.arguments.date
    ELSE call.config.date

\* A value in the numeric form YYYYMMDD: eight digits, as an integer or as a
\* string.
EightDigits(x) ==
    /\ x.t \in {"int", "str"}
    /\ Len(py_str(x)) = 8
    /\ IsInt(py_str(x))

\* C24: a date given as eight digits, by the argument (an integer or a
\* string of digits) or by config.json, is in the listing request in the
\* form YYYY-MM-DD.
C24_EightDigitDateNormalized ==
    (/\ call.op = "fetch_daily_papers"
     /\ call.url # <<>>
     /\ EightDigits(GivenDate)) =>
        call.url[1].date = dashed(py_str(GivenDate))

\* The exchanges the tool call of this step makes.
StepExchanges == SubSeq(log', Len(log) + 1, Len(log'))

\* The login of the tool call of this step succeeded.
StepLoginSucceeded ==
    /\ Len(StepExchanges) >= 2
    /\ StepExchanges[1] = Exchange("GET /login", "ok")
    /\ StepExchanges[2] = Exchange("POST /login", "ok")

\* C31: a tool call on a server without a client whose login fails leaves
\* _client assigned and unauthenticated, with the error and no listing
\* request; a tool call on an assigned, unauthenticated client starts with
\* a login and requests the listing only after that login succeeded; so no
\* listing request of any sequence of calls comes before a successful login.
C31_FailedConstructionLoginRetried ==
    [][/\ (client = "None" /\ ~StepLoginSucceeded) =>
             /\ client' = "BentyFieldsClient"
             /\ ~logged_in'
             /\ call'.exc # "none"
             /\ \A k \in 1..Len(StepExchanges) :
                   StepExchanges[k].req # ListingRequest
       /\ (client = "BentyFieldsClient" /\ ~logged_in) =>
             /\ client' = client
             /\ Len(StepExchanges) >= 1
             /\ StepExchanges[1].req = "GET /login"
             /\ logged_in' = StepLoginSucceeded
             /\ \A k \in 1..Len(StepExchanges) :
                   StepExchanges[k].req = ListingRequest =>
                       k = 3 /\ StepLoginSucceeded
       /\ \A i \in 1..Len(log') :
             log'[i].req = ListingRequest =>
                 \E j \in 2..(i - 1) :
                     /\ log'[j] = Exchange("POST /login", "ok")
                     /\ log'[j - 1] = Exchange("GET /login", "ok")
      ]_vars

\* The first tool call failed in the login of the new client; a later call
\* on that client logged in and requested the listing.
C31_Witness ==
    /\ client = "BentyFieldsClient"
    /\ call.op = "fetch_daily_papers"
    /\ Len(log) > ret.nreqs
    /\ log[1].req = "GET /login"
    /\ \A j \in 1..(Len(log) - ret.nreqs) :
          log[j] # Exchange("POST /login", "ok")
    /\ ~ret.was_logged_in
    /\ logged_in
    /\ ret.nreqs = 3
    /\ CallExchanges[3].req = ListingRequest

--------------------------------------------------------------------------
(* Properties of two download_paper_pdf calls at once.                     *)

Succeeded(p) ==
    callers[p].pc = "done" /\ callers[p].exc = "none" /\ callers[p].returned

\* C28: when both callers found no file, both opened and wrote the file and
\* both returned, the file holds the whole document, chunk for chunk what one
\* caller alone writes.
C28_BothWritersLeaveWholeDocument ==
    (\A p \in Callers : Succeeded(p) /\ callers[p].wrote) =>
        /\ pdf_file = File(Doc(served))
        /\ pdf_file = download_paper_pdf(
                          [q \in Paths |-> NoFile], "a",
                          [status |-> "ok", v |-> served,
                           arrive |-> DocChunks]).fs[Path("a", "pdf")]

\* Both callers wrote and returned, one of them while the other, having
\* emptied the file, was still writing.
C28_Witness ==
    /\ \A p \in Callers : Succeeded(p) /\ callers[p].wrote
    /\ \E p \in Callers : ~callers[p].complete
    /\ pdf_file = File(Doc(served))

\* C30: a call that returns the path returns it when the file holds the whole
\* document: no existence test finds the file that the other caller has
\* opened and not yet written to its end.
C30_ReturnedPathIsComplete ==
    \A p \in Callers : Succeeded(p) => callers[p].complete

--------------------------------------------------------------------------
(* Properties of the two implementations of the synthesis.                 *)

\* C29: for the same papers, flags, cache and surroundings, the
\* generate_daily_summary of generate_summary.py and that of server.py make
\* the same content decision in every section (a block of the same kind, a
\* notice, or nothing), do the same downloads and conversions and leave the
\* same cache.
C29_ImplementationsAgree ==
    both.done =>
        /\ both.script.decisions = both.server.decisions
        /\ both.script.fs = both.server.fs

====
